---- MODULE Spec2Model ----
(***************************************************************************)
(* The editor store of image-composer (src/lib/editor-store.ts): an        *)
(* undo/redo history {past, present, future} over EditorState snapshots,   *)
(* the layer operations that commit to it, and the UI handlers of the page *)
(* component that drive it.                                                *)
(*                                                                         *)
(* Representation.  A layer id `text-<ms>` is the natural number <ms>; the *)
(* null selectedLayerId is 0.  A JS object is a record whose DOMAIN is the *)
(* set of properties the object has, so an optional property that was      *)
(* never set is absent from the DOMAIN.  JS null and the undefined array   *)
(* element are the one-field records Null and Undefined.                   *)
(***************************************************************************)
EXTENDS Integers, Sequences, FiniteSets, TLC

VARIABLES past, present, future, clock, fuel, last, log,
          screen, canvas, file, imported, autosave, page, fontManager

vars == <<past, present, future, clock, fuel, last, log,
          screen, canvas, file, imported, autosave, page, fontManager>>

(***************************************************************************)
(* Bounds of the model.                                                    *)
(***************************************************************************)
\* number of handler calls explored from an initial state of Spec
MaxSteps == 3
\* largest value of the millisecond clock (Date.now())
MaxClock == 2
\* number of ArrowRight presses explored by SpecHist
MaxNudges == 24
\* number of layers SpecExport puts on the image
MaxLayers == 2
\* seconds after page load up to which SpecAutosave follows the user
MaxTime == 4
\* number of clicks on Export PNG SpecBusy follows
MaxExports == 2
\* number of files SpecUpload hands to handleImageUpload
MaxUploads == 2
\* number of edits, key presses and clicks SpecEdit and SpecFonts follow
MaxEdits == 2

(***************************************************************************)
(* Values.                                                                 *)
(***************************************************************************)
Null == [null |-> TRUE]
Undefined == [undefined |-> TRUE]
NoId == 0

MAX_HISTORY_SIZE == 25

initialState ==
  [imageData |-> Null, textLayers |-> <<>>, selectedLayerId |-> NoId,
   selectedLayerIds |-> <<>>, snapGuides |-> <<>>, customFonts |-> <<>>]

\* An ImageData descriptor, as img.onload of handleImageUpload builds it.
Img1 == [src |-> "blob:a", width |-> 2000, height |-> 1000,
         displayWidth |-> 800, displayHeight |-> 400]

\* 1000 x 301 pixels: handleImageUpload rounds 800 / (1000 / 301) to 241.
Img2 == [src |-> "blob:b", width |-> 1000, height |-> 301,
         displayWidth |-> 800, displayHeight |-> 241]

\* The layer handleAddTextLayer builds; id is `text-${Date.now()}`.
\* lineHeight 1.2 is the fraction 6/5.
NewLayer(now) ==
  [id |-> now, text |-> "New Text", x |-> 50, y |-> 50, fontSize |-> 24,
   fontFamily |-> "Arial", fontWeight |-> "normal", fill |-> "#000000",
   fontStyle |-> "normal", textDecoration |-> "", align |-> "left",
   opacity |-> 1, rotation |-> 0, scaleX |-> 1, scaleY |-> 1,
   lineHeight |-> [n |-> 6, d |-> 5], letterSpacing |-> 0,
   shadowColor |-> "#000000", shadowBlur |-> 0, shadowOffsetX |-> 0,
   shadowOffsetY |-> 0, shadowOpacity |-> 0, locked |-> FALSE,
   visible |-> TRUE, zIndex |-> 0]

\* A layer as a caller of the store may hand it in (project file, autosave
\* record): the optional properties locked and visible are not set.
BareLayer(id) == [id |-> id, text |-> "A", x |-> 10, y |-> 10]

\* A layer of a project file that carries a z-order index.
ZLayer(id) == [id |-> id, text |-> "A", x |-> 10, y |-> 10, zIndex |-> 1]

Font1 == [id |-> "f1", family |-> "Custom"]

\* snap guides { x?: number; y?: number } as the sequence of the
\* coordinates that are set: {} is <<>>
Guides1 == <<400>>

(***************************************************************************)
(* JavaScript helpers.                                                     *)
(***************************************************************************)
\* { ...a, ...b }
Spread(a, b) ==
  [k \in (DOMAIN a) \cup (DOMAIN b) |-> IF k \in DOMAIN b THEN b[k] ELSE a[k]]

\* the object without the properties ks
Omit(o, ks) == [k \in (DOMAIN o) \ ks |-> o[k]]

\* o.k used as a condition, for a boolean-valued optional property k
Truthy(o, k) == k \in DOMAIN o /\ o[k]

\* array.slice(-n), n > 0
SliceLast(s, n) == IF Len(s) <= n THEN s ELSE SubSeq(s, Len(s) - n + 1, Len(s))

\* Reading a property of an undefined array element throws a TypeError.
HasUndefined(layers) == \E i \in 1..Len(layers) : layers[i] = Undefined

FirstUndefined(layers) ==
  IF HasUndefined(layers)
    THEN CHOOSE i \in 1..Len(layers) :
           /\ layers[i] = Undefined
           /\ \A j \in 1..(i - 1) : layers[j] # Undefined
    ELSE 0

Matches(layers, i, id) == layers[i] # Undefined /\ layers[i].id = id

\* 1-based position of the first layer with this id; 0 when there is none
FirstMatch(layers, id) ==
  IF \E i \in 1..Len(layers) : Matches(layers, i, id)
    THEN CHOOSE i \in 1..Len(layers) :
           /\ Matches(layers, i, id)
           /\ \A j \in 1..(i - 1) : ~Matches(layers, j, id)
    ELSE 0

\* layers.find / layers.findIndex with (layer) => layer.id === id reads
\* layer.id of every element up to the first match.
FindThrows(layers, id) ==
  /\ HasUndefined(layers)
  /\ \/ FirstMatch(layers, id) = 0
     \/ FirstUndefined(layers) < FirstMatch(layers, id)

\* layers.findIndex(...) as a JS index: -1 when no layer matches
findIndex(layers, id) == FirstMatch(layers, id) - 1

\* the array after [a[i], a[j]] = [a[j], a[i]] for JS indices i, j; an
\* index outside 0..length-1 reads undefined, and a write to index -1 sets
\* a property that is no element of the array.
At(a, i) == IF i >= 0 /\ i < Len(a) THEN a[i + 1] ELSE Undefined
SwapJS(a, i, j) ==
  [k \in 1..Len(a) |->
     IF k = i + 1 THEN At(a, j) ELSE IF k = j + 1 THEN At(a, i) ELSE a[k]]

\* o.k used as a condition, for a number-valued optional property k
TruthyNum(o, k) == k \in DOMAIN o /\ o[k] # 0

\* o.k || dflt, for a number-valued property k
OrElse(o, k, dflt) == IF k \in DOMAIN o /\ o[k] # 0 THEN o[k] ELSE dflt

\* o.k || dflt, for a string-valued property k
OrElseStr(o, k, dflt) == IF k \in DOMAIN o /\ o[k] # "" THEN o[k] ELSE dflt

\* text.split("\n"), for the texts of the model
split(text) == IF text = "L1\nL2" THEN <<"L1", "L2">> ELSE <<text>>

(***************************************************************************)
(* Canvas arithmetic.  A coordinate or size is the fraction [n, d], d > 0, *)
(* in lowest terms; the rounding of JS doubles is not followed.            *)
(***************************************************************************)
RECURSIVE GCD(_, _)
GCD(a, b) == IF b = 0 THEN a ELSE GCD(b, a % b)

Abs(i) == IF i < 0 THEN -i ELSE i

Frac(n, d) ==
  LET g == GCD(Abs(n), d) IN [n |-> n \div g, d |-> d \div g]

F(i) == [n |-> i, d |-> 1]

Plus(a, b) == Frac(a.n * b.d + b.n * a.d, a.d * b.d)
Minus(a, b) == Frac(a.n * b.d - b.n * a.d, a.d * b.d)
Times(a, b) == Frac(a.n * b.n, a.d * b.d)
Half(a) == Frac(a.n, 2 * a.d)
Neg(a) == [n |-> -a.n, d |-> a.d]
\* scaleX taken for Math.min(scaleX, scaleY)
Min_first(a, b) == a

\* Math.min(a, b)
Min(a, b) == IF b.n * a.d < a.n * b.d THEN b ELSE a

\* The current transformation of a 2D context after translate(tx, ty),
\* rotate(rot degrees), scale(sx, sy), translate(ox, oy) from the identity.
NoTransform == [tx |-> F(0), ty |-> F(0), rot |-> 0, sx |-> F(1), sy |-> F(1),
                ox |-> F(0), oy |-> F(0)]

(***************************************************************************)
(* The store.  cur is the value of get(): [past, present, future].  Every  *)
(* operation yields an outcome: what it left in the store and how it       *)
(* ended ("set": it called set(); "return": it returned without calling    *)
(* set(); "throw": it threw before calling set()).                         *)
(***************************************************************************)
Store == [past |-> past, present |-> present, future |-> future]

DidSet(st) == [out |-> "set", st |-> st]
DidCommit(st) == [out |-> "commit", st |-> st]
Returned(cur) == [out |-> "return", st |-> cur]
Threw(cur) == [out |-> "throw", st |-> cur]

\* createHistoryState without `future: []`
createHistoryState_keepFuture(newPresent, currentHistory) ==
  [past |-> SliceLast(Append(currentHistory.past, currentHistory.present),
                      MAX_HISTORY_SIZE),
   present |-> newPresent,
   future |-> currentHistory.future]

\* createHistoryState with slice(0, MAX_HISTORY_SIZE): drops the newest entry
createHistoryState_sliceFirst(newPresent, currentHistory) ==
  LET all == Append(currentHistory.past, currentHistory.present) IN
  [past |-> IF Len(all) <= MAX_HISTORY_SIZE THEN all
            ELSE SubSeq(all, 1, MAX_HISTORY_SIZE),
   present |-> newPresent,
   future |-> <<>>]

\* createHistoryState without the slice
createHistoryState_noSlice(newPresent, currentHistory) ==
  [past |-> Append(currentHistory.past, currentHistory.present),
   present |-> newPresent,
   future |-> <<>>]

createHistoryState(newPresent, currentHistory) ==
  [past |-> SliceLast(Append(currentHistory.past, currentHistory.present),
                      MAX_HISTORY_SIZE),
   present |-> newPresent,
   future |-> <<>>]

setImageData(cur, imageData) ==
  DidCommit(createHistoryState([cur.present EXCEPT !.imageData = imageData], cur))

addTextLayer(cur, layer) ==
  DidCommit(createHistoryState(
    [cur.present EXCEPT !.textLayers = Append(@, layer),
                        !.selectedLayerId = layer.id], cur))

\* updateTextLayer with { ...updates, ...layer } for { ...layer, ...updates }
updateTextLayer_layerWins(cur, id, updates) ==
  LET layers == cur.present.textLayers IN
  IF HasUndefined(layers) THEN Threw(cur)
  ELSE DidCommit(createHistoryState(
         [cur.present EXCEPT !.textLayers =
            [i \in 1..Len(layers) |->
               IF layers[i].id = id THEN Spread(updates, layers[i])
                                    ELSE layers[i]]], cur))

updateTextLayer(cur, id, updates) ==
  LET layers == cur.present.textLayers IN
  IF HasUndefined(layers) THEN Threw(cur)
  ELSE DidCommit(createHistoryState(
         [cur.present EXCEPT !.textLayers =
            [i \in 1..Len(layers) |->
               IF layers[i].id = id THEN Spread(layers[i], updates)
                                    ELSE layers[i]]], cur))

\* deleteTextLayer without the selectedLayerId line
deleteTextLayer_keepSelection(cur, id) ==
  LET layers == cur.present.textLayers IN
  IF HasUndefined(layers) THEN Threw(cur)
  ELSE DidCommit(createHistoryState(
         [cur.present EXCEPT
            !.textLayers = SelectSeq(layers, LAMBDA l : l.id # id)], cur))

deleteTextLayer(cur, id) ==
  LET layers == cur.present.textLayers IN
  IF HasUndefined(layers) THEN Threw(cur)
  ELSE DidCommit(createHistoryState(
         [cur.present EXCEPT
            !.textLayers = SelectSeq(layers, LAMBDA l : l.id # id),
            !.selectedLayerId = IF @ = id THEN NoId ELSE @], cur))

moveLayerUp(cur, id) ==
  LET layers == cur.present.textLayers
      index == findIndex(layers, id)
  IN IF FindThrows(layers, id) THEN Threw(cur)
     ELSE IF index < Len(layers) - 1
       THEN DidCommit(createHistoryState(
              [cur.present EXCEPT !.textLayers = SwapJS(layers, index, index + 1)],
              cur))
       ELSE Returned(cur)

moveLayerDown(cur, id) ==
  LET layers == cur.present.textLayers
      index == findIndex(layers, id)
  IN IF FindThrows(layers, id) THEN Threw(cur)
     ELSE IF index > 0
       THEN DidCommit(createHistoryState(
              [cur.present EXCEPT !.textLayers = SwapJS(layers, index, index - 1)],
              cur))
       ELSE Returned(cur)

duplicateLayer(cur, id, now) ==
  LET layers == cur.present.textLayers
      m == FirstMatch(layers, id)
  IN IF FindThrows(layers, id) THEN Threw(cur)
     ELSE IF m # 0
       THEN LET newLayer == Spread(layers[m],
                              [id |-> now, x |-> layers[m].x + 20,
                               y |-> layers[m].y + 20])
            IN DidCommit(createHistoryState(
                 [cur.present EXCEPT !.textLayers = Append(@, newLayer),
                                     !.selectedLayerId = newLayer.id], cur))
       ELSE Returned(cur)

toggleLayerLock(cur, id) ==
  LET layers == cur.present.textLayers
      m == FirstMatch(layers, id)
  IN IF FindThrows(layers, id) THEN Threw(cur)
     ELSE IF m # 0
       THEN IF HasUndefined(layers) THEN Threw(cur)
            ELSE DidCommit(createHistoryState(
                   [cur.present EXCEPT
                      !.textLayers =
                        [i \in 1..Len(layers) |->
                           IF layers[i].id = id
                             THEN Spread(layers[i],
                                    [locked |-> ~Truthy(layers[i], "locked")])
                             ELSE layers[i]],
                      !.selectedLayerId =
                        IF Truthy(layers[m], "locked") THEN @ ELSE NoId], cur))
       ELSE Returned(cur)

\* toggleLayerVisibility with visible: !layer.visible
toggleLayerVisibility_not(cur, id) ==
  LET layers == cur.present.textLayers IN
  IF HasUndefined(layers) THEN Threw(cur)
  ELSE DidCommit(createHistoryState(
         [cur.present EXCEPT !.textLayers =
            [i \in 1..Len(layers) |->
               IF layers[i].id = id
                 THEN Spread(layers[i], [visible |-> ~Truthy(layers[i], "visible")])
                 ELSE layers[i]]], cur))

toggleLayerVisibility(cur, id) ==
  LET layers == cur.present.textLayers IN
  IF HasUndefined(layers) THEN Threw(cur)
  ELSE DidCommit(createHistoryState(
         [cur.present EXCEPT !.textLayers =
            [i \in 1..Len(layers) |->
               IF layers[i].id = id
                 THEN Spread(layers[i],
                        [visible |-> ("visible" \in DOMAIN layers[i]
                                       /\ layers[i].visible = FALSE)])
                 ELSE layers[i]]], cur))

\* setSelectedLayerId going through createHistoryState
setSelectedLayerId_commits(cur, id) ==
  DidCommit(createHistoryState([cur.present EXCEPT !.selectedLayerId = id], cur))

setSelectedLayerId(cur, id) ==
  DidSet([cur EXCEPT !.present = [cur.present EXCEPT !.selectedLayerId = id]])

setSelectedLayerIds(cur, ids) ==
  DidSet([cur EXCEPT !.present = [cur.present EXCEPT !.selectedLayerIds = ids]])

setSnapGuides(cur, guides) ==
  DidSet([cur EXCEPT !.present = [cur.present EXCEPT !.snapGuides = guides]])

addCustomFont(cur, font) ==
  DidCommit(createHistoryState(
    [cur.present EXCEPT !.customFonts = Append(@, font)], cur))

removeCustomFont(cur, fontId) ==
  DidCommit(createHistoryState(
    [cur.present EXCEPT
       !.customFonts = SelectSeq(@, LAMBDA f : f.id # fontId)], cur))

\* undo with past: current.past (the state undone to stays in past)
undo_keepsPast(cur) ==
  IF Len(cur.past) = 0 THEN Returned(cur)
  ELSE DidSet([past |-> cur.past,
               present |-> cur.past[Len(cur.past)],
               future |-> <<cur.present>> \o cur.future])

\* undo with future: [current.present]
undo_dropFuture(cur) ==
  IF Len(cur.past) = 0 THEN Returned(cur)
  ELSE DidSet([past |-> SubSeq(cur.past, 1, Len(cur.past) - 1),
               present |-> cur.past[Len(cur.past)],
               future |-> <<cur.present>>])

undo(cur) ==
  IF Len(cur.past) = 0 THEN Returned(cur)
  ELSE DidSet([past |-> SubSeq(cur.past, 1, Len(cur.past) - 1),
               present |-> cur.past[Len(cur.past)],
               future |-> <<cur.present>> \o cur.future])

\* redo with past: [...current.past, next]
redo_pushNext(cur) ==
  IF Len(cur.future) = 0 THEN Returned(cur)
  ELSE DidSet([past |-> Append(cur.past, cur.future[1]),
               present |-> cur.future[1],
               future |-> Tail(cur.future)])

redo(cur) ==
  IF Len(cur.future) = 0 THEN Returned(cur)
  ELSE DidSet([past |-> Append(cur.past, cur.present),
               present |-> cur.future[1],
               future |-> Tail(cur.future)])

canUndo(cur) == Len(cur.past) > 0
canRedo(cur) == Len(cur.future) > 0

getHistoryInfo(cur) ==
  [currentStep |-> Len(cur.past) + 1,
   totalSteps |-> Len(cur.past) + Len(cur.future) + 1]

\* reset recorded as one more commit
reset_commits(cur) == DidSet(createHistoryState(initialState, cur))

reset(cur) == DidSet([past |-> <<>>, present |-> initialState, future |-> <<>>])

\* The store defines no bringToFront and no sendToBack: the page component
\* reads undefined for both from useEditorStore(), and calling undefined
\* throws a TypeError before anything is set.
bringToFront(cur, id) == Threw(cur)

sendToBack(cur, id) == Threw(cur)

(***************************************************************************)
(* The page component (ImageTextComposer).                                 *)
(***************************************************************************)
\* handleAddTextLayer: addTextLayer(newLayer); setSelectedLayerId(newLayer.id)
handleAddTextLayer(cur, now) ==
  IF cur.present.imageData = Null THEN Returned(cur)
  ELSE LET added == addTextLayer(cur, NewLayer(now))
       IN [out |-> "commit", st |-> setSelectedLayerId(added.st, now).st]

\* handleKeyDown for the event ev = [key, mod (ctrlKey || metaKey), shift,
\* typing (the target is an input field)].  selectedLayer is the layer the
\* last render found for selectedLayerId; a render over a list that holds
\* an undefined element throws, and then no handler is attached.  The store
\* has no bringToFront / sendToBack: calling them throws a TypeError.  A
\* switch runs the first clause whose label matches, so the second
\* 'ArrowDown' and 'ArrowUp' labels are dead.
handleKeyDown(cur, ev) ==
  LET sel == cur.present.selectedLayerId
      layers == cur.present.textLayers
      m == FirstMatch(layers, sel)
      nudgeAmount == IF ev.shift THEN 10 ELSE 1
  IN
  IF HasUndefined(layers) THEN Threw(cur)
  ELSE IF ev.typing THEN Returned(cur)
  ELSE IF ev.mod /\ ev.key = "z" /\ ~ev.shift THEN undo(cur)
  ELSE IF ev.mod /\ ev.key = "Z" /\ ev.shift THEN redo(cur)
  ELSE IF sel = NoId \/ m = 0 THEN Returned(cur)
  ELSE CASE ev.key = "ArrowUp" ->
              updateTextLayer(cur, sel, [y |-> layers[m].y - nudgeAmount])
         [] ev.key = "ArrowDown" ->
              updateTextLayer(cur, sel, [y |-> layers[m].y + nudgeAmount])
         [] ev.key = "ArrowLeft" ->
              updateTextLayer(cur, sel, [x |-> layers[m].x - nudgeAmount])
         [] ev.key = "ArrowRight" ->
              updateTextLayer(cur, sel, [x |-> layers[m].x + nudgeAmount])
         [] ev.key \in {"Delete", "Backspace"} -> deleteTextLayer(cur, sel)
         [] ev.key \in {"r", "R"} ->
              IF ev.shift THEN updateTextLayer(cur, sel, [rotation |-> 0])
                          ELSE Returned(cur)
         [] ev.key \in {"s", "S"} ->
              IF ev.shift
                THEN updateTextLayer(cur, sel, [scaleX |-> 1, scaleY |-> 1])
                ELSE Returned(cur)
         [] ev.key = "PageDown" ->
              IF ev.mod
                THEN IF ev.shift THEN sendToBack(cur, sel)
                                 ELSE moveLayerDown(cur, sel)
                ELSE Returned(cur)
         [] ev.key = "PageUp" ->
              IF ev.mod
                THEN IF ev.shift THEN bringToFront(cur, sel)
                                 ELSE moveLayerUp(cur, sel)
                ELSE Returned(cur)
         [] OTHER -> Returned(cur)

ArrowRight == [key |-> "ArrowRight", mod |-> FALSE, shift |-> FALSE,
               typing |-> FALSE]

(***************************************************************************)
(* ExportManager.                                                          *)
(***************************************************************************)
\* a.zIndex || 0
ZKey(l) == IF "zIndex" \in DOMAIN l THEN l.zIndex ELSE 0

\* 1-based position of layers[i] in [...layers].sort((a, b) => (a.zIndex ||
\* 0) - (b.zIndex || 0)); the sort is stable
Rank(layers, i) ==
  Cardinality({j \in 1..Len(layers) :
                 \/ ZKey(layers[j]) < ZKey(layers[i])
                 \/ ZKey(layers[j]) = ZKey(layers[i]) /\ j <= i})

\* the layers in list order, unsorted
sortedTextLayers_unsorted(layers) == layers

sortedTextLayers(layers) ==
  [r \in 1..Len(layers) |->
     layers[CHOOSE i \in 1..Len(layers) : Rank(layers, i) = r]]

RECURSIVE Flat(_)
Flat(ss) == IF ss = <<>> THEN <<>> ELSE Head(ss) \o Flat(Tail(ss))

\* the fillText calls of one pass of the `for (const textLayer of
\* sortedTextLayers)` loop, one per line of the text, with the context
\* state each is made under
exportLayer(textLayer, scaleX, scaleY) ==
  LET scaledFontSize == Times(F(textLayer.fontSize), Min(scaleX, scaleY))
      x == Times(F(textLayer.x), scaleX)
      y == Times(F(textLayer.y), scaleY)
      centerX == Plus(x, IF TruthyNum(textLayer, "width")
                           THEN Half(Times(F(textLayer.width), scaleX))
                           ELSE F(0))
      centerY == Plus(y, Half(scaledFontSize))
      transform ==
        IF \/ TruthyNum(textLayer, "rotation")
           \/ TruthyNum(textLayer, "scaleX")
           \/ TruthyNum(textLayer, "scaleY")
          THEN [tx |-> centerX, ty |-> centerY,
                rot |-> OrElse(textLayer, "rotation", 0),
                sx |-> F(OrElse(textLayer, "scaleX", 1)),
                sy |-> F(OrElse(textLayer, "scaleY", 1)),
                ox |-> Neg(centerX), oy |-> Neg(centerY)]
          ELSE NoTransform
      shadow ==
        IF textLayer.shadowBlur > 0
          THEN [color |-> textLayer.shadowColor,
                blur |-> Times(F(textLayer.shadowBlur), Min(scaleX, scaleY)),
                offsetX |-> Times(F(textLayer.shadowOffsetX), scaleX),
                offsetY |-> Times(F(textLayer.shadowOffsetY), scaleY)]
          ELSE Null
      lines == split(textLayer.text)
      lineHeight == Times(scaledFontSize, textLayer.lineHeight)
      lineX ==
        IF textLayer.align = "center" /\ TruthyNum(textLayer, "width")
          THEN Plus(x, Half(Times(F(textLayer.width), scaleX)))
        ELSE IF textLayer.align = "right" /\ TruthyNum(textLayer, "width")
          THEN Plus(x, Times(F(textLayer.width), scaleX))
        ELSE x
  IN [i \in 1..Len(lines) |->
        [op |-> "fillText", layer |-> textLayer.id, line |-> lines[i],
         index |-> i - 1, x |-> lineX,
         y |-> Plus(y, Times(F(i - 1), lineHeight)),
         weight |-> OrElseStr(textLayer, "fontWeight", "normal"),
         size |-> scaledFontSize,
         family |-> OrElseStr(textLayer, "fontFamily", "Arial"),
         fill |-> textLayer.fill, alpha |-> textLayer.opacity,
         align |-> textLayer.align, baseline |-> "top",
         shadow |-> shadow, transform |-> transform]]

NoCanvas == [out |-> "none", width |-> 0, height |-> 0, calls |-> <<>>,
             error |-> "", download |-> FALSE, alert |-> ""]

\* exportToPNG(imageData, textLayers): what the promise settles to (out,
\* error), the offscreen canvas (width, height, calls) and whether the
\* toBlob callback got as far as link.click().  env is what the browser
\* does: getContext("2d") returns null, the image fails to load, toBlob
\* yields null, or all succeed.  sort() moves undefined entries behind all
\* others, and reading .visible of the first of them throws.
exportToPNG(imageData, textLayers, env) ==
  LET scaleX == Frac(imageData.width, imageData.displayWidth)
      scaleY == Frac(imageData.height, imageData.displayHeight)
      blank == [NoCanvas EXCEPT !.width = imageData.width,
                                !.height = imageData.height]
      defined == SelectSeq(textLayers, LAMBDA l : l # Undefined)
      drawn == SelectSeq(sortedTextLayers(defined),
                         LAMBDA l : ~("visible" \in DOMAIN l /\ l.visible = FALSE))
      calls == <<[op |-> "drawImage", src |-> imageData.src,
                  width |-> imageData.width, height |-> imageData.height]>>
               \o Flat([i \in 1..Len(drawn) |->
                          exportLayer(drawn[i], scaleX, scaleY)])
  IN IF env = "noContext"
       THEN [blank EXCEPT !.out = "throw",
               !.error = "Export failed: Failed to get 2D canvas context"]
     ELSE IF env = "imageError"
       THEN [blank EXCEPT !.out = "throw",
               !.error = "Export failed: Failed to load image"]
     ELSE IF HasUndefined(textLayers)
       THEN [blank EXCEPT !.out = "throw", !.calls = calls,
               !.error = "Export failed: Cannot read properties of undefined"]
     ELSE [blank EXCEPT !.out = "ok", !.calls = calls,
                        !.download = (env # "noBlob")]

Envs == {"ok", "noContext", "imageError", "noBlob"}

\* exportProjectData(imageData, textLayers): the document written to the
\* downloaded file, as the JSON value its text denotes.  JSON.stringify
\* writes an undefined array element as null; now is new Date().
exportProjectData(imageData, textLayers, now) ==
  [version |-> "1.0", timestamp |-> now, imageData |-> imageData,
   textLayers |-> [i \in 1..Len(textLayers) |->
                     IF textLayers[i] = Undefined THEN Null ELSE textLayers[i]]]

\* a file whose text JSON.parse rejects
Unparseable == [syntaxError |-> TRUE]

NoImport == [out |-> "none"]

\* importProjectData that also rejects an empty layer list
importProjectData_needsLayers(doc) ==
  IF \/ doc = Unparseable
     \/ ~("version" \in DOMAIN doc /\ doc.version # "")
     \/ "textLayers" \notin DOMAIN doc
     \/ doc.textLayers = <<>>
    THEN [out |-> "throw",
          error |-> "Failed to import project file. Please check the file format."]
    ELSE [out |-> "ok",
          imageData |-> IF "imageData" \in DOMAIN doc THEN doc.imageData
                                                      ELSE Null,
          textLayers |-> doc.textLayers]

\* importProjectData that returns no image
importProjectData_dropsImage(doc) ==
  IF \/ doc = Unparseable
     \/ ~("version" \in DOMAIN doc /\ doc.version # "")
     \/ "textLayers" \notin DOMAIN doc
    THEN [out |-> "throw",
          error |-> "Failed to import project file. Please check the file format."]
    ELSE [out |-> "ok", imageData |-> Null, textLayers |-> doc.textLayers]

\* importProjectData(file): what the promise settles to.  doc is the value
\* JSON.parse yields for the text of the file; the JSON text null is Null,
\* and reading its version throws inside the try.
importProjectData(doc) ==
  IF \/ doc = Unparseable
     \/ ~("version" \in DOMAIN doc /\ doc.version # "")
     \/ "textLayers" \notin DOMAIN doc
    THEN [out |-> "throw",
          error |-> "Failed to import project file. Please check the file format."]
    ELSE [out |-> "ok",
          imageData |-> IF "imageData" \in DOMAIN doc THEN doc.imageData
                                                      ELSE Null,
          textLayers |-> doc.textLayers]

(***************************************************************************)
(* CanvasWrapper: the live preview.                                        *)
(***************************************************************************)
\* ctx.measureText(layer.text).width.  draw() measures after ctx.restore(),
\* hence under the font the context had before save(): the 10px
\* sans-serif of a fresh context.  Taken as half an em per character.
measureText(text) == 5 * Len(text)

\* the fillText calls of one pass of the forEach of draw()
drawLayer(layer) ==
  LET width == OrElse(layer, "width", 0)
      fontSize == OrElse(layer, "fontSize", 16)
      lines == split(layer.text)
      lineHeight ==
        Times(F(fontSize),
              IF "lineHeight" \in DOMAIN layer /\ layer.lineHeight.n # 0
                THEN layer.lineHeight ELSE [n |-> 6, d |-> 5])
      shadow ==
        IF \/ TruthyNum(layer, "shadowBlur")
           \/ TruthyNum(layer, "shadowOffsetX")
           \/ TruthyNum(layer, "shadowOffsetY")
          THEN [color |-> OrElseStr(layer, "shadowColor", "#000000"),
                blur |-> F(OrElse(layer, "shadowBlur", 0)),
                offsetX |-> F(OrElse(layer, "shadowOffsetX", 0)),
                offsetY |-> F(OrElse(layer, "shadowOffsetY", 0))]
          ELSE Null
  IN [i \in 1..Len(lines) |->
        [op |-> "fillText", layer |-> layer.id, line |-> lines[i],
         index |-> i - 1, x |-> Neg(Half(F(width))),
         y |-> Times(Minus(F(i - 1), Half(F(Len(lines) - 1))), lineHeight),
         weight |-> OrElseStr(layer, "fontWeight", "normal"),
         size |-> F(fontSize),
         family |-> OrElseStr(layer, "fontFamily", "Arial"),
         fill |-> OrElseStr(layer, "fill", "#000000"),
         alpha |-> OrElse(layer, "opacity", 1),
         align |-> OrElseStr(layer, "align", "left"), baseline |-> "middle",
         shadow |-> shadow,
         transform |-> [tx |-> Plus(F(layer.x), Half(F(width))),
                        ty |-> Plus(F(layer.y), Half(F(fontSize))),
                        rot |-> OrElse(layer, "rotation", 0),
                        sx |-> F(OrElse(layer, "scaleX", 1)),
                        sy |-> F(OrElse(layer, "scaleY", 1)),
                        ox |-> F(0), oy |-> F(0)]]]

\* if (!layer.width) { layer.width = ...; layer.height = ... }: written
\* into the layer object of the store
measured(layer) ==
  IF TruthyNum(layer, "width") THEN layer
  ELSE Spread(layer, [width |-> measureText(layer.text),
                      height |-> OrElse(layer, "fontSize", 16)])

NoScreen == [calls |-> <<>>, handles |-> Null]

\* draw() once the background image has loaded: what is on the screen
\* (the calls made, the selection box) and the layers as it leaves them.
\* The component is mounted only while there is an image.
draw(state) ==
  LET layers == state.textLayers
      shown == SelectSeq(layers, LAMBDA l : Truthy(l, "visible"))
      after == [i \in 1..Len(layers) |->
                  IF Truthy(layers[i], "visible") THEN measured(layers[i])
                                                  ELSE layers[i]]
      m == FirstMatch(after, state.selectedLayerId)
  IN IF state.imageData = Null \/ HasUndefined(layers)
       THEN [screen |-> NoScreen, textLayers |-> layers]
       ELSE [screen |->
               [calls |->
                  <<[op |-> "drawImage", src |-> state.imageData.src,
                     width |-> state.imageData.displayWidth,
                     height |-> state.imageData.displayHeight]>>
                  \o Flat([i \in 1..Len(shown) |-> drawLayer(shown[i])]),
                handles |->
                  IF m # 0 /\ ~Truthy(after[m], "locked")
                    THEN [layer |-> after[m].id,
                          width |-> OrElse(after[m], "width", 100),
                          height |-> OrElse(after[m], "height",
                                            OrElse(after[m], "fontSize", 16))]
                    ELSE Null],
             textLayers |-> after]

(***************************************************************************)
(* The page component: rendering, export and import.                       *)
(***************************************************************************)
\* The states of past or future after draw() wrote width and height into
\* layer objects of present: before and after are the layers of present
\* before and after the pass.  A state that holds the object draw() wrote
\* into shows the write.  A layer of a state in past or future that
\* equals a layer of present draw() writes into is that same object: the
\* layers that are added have ids of their own, and an operation that
\* copies a layer (updateTextLayer, the toggles) makes a copy that differs
\* from the original or that draw() leaves alone.
shared(states, before, after) ==
  [k \in 1..Len(states) |->
     LET layers == states[k].textLayers
     IN [states[k] EXCEPT !.textLayers =
           [j \in 1..Len(layers) |->
              IF \E i \in 1..Len(before) : before[i] = layers[j]
                THEN after[CHOOSE i \in 1..Len(before) : before[i] = layers[j]]
                ELSE layers[j]]]]

\* A change of the store re-renders the page, and the effect of
\* CanvasWrapper runs draw(): r is the outcome of a store operation, and
\* the layer objects of its present are left as draw() leaves them, in
\* present and in every state of past and future that shares them.
rendered(r) ==
  LET before == r.st.present.textLayers
      after == draw(r.st.present).textLayers
  IN [r EXCEPT !.st.present.textLayers = after,
               !.st.past = shared(@, before, after),
               !.st.future = shared(@, before, after)]

\* importedTextLayers.forEach((layer) => addTextLayer(layer)); reading
\* layer.id of a null entry throws
RECURSIVE addAll(_, _)
addAll(cur, layers) ==
  IF layers = <<>> THEN DidCommit(cur)
  ELSE IF Head(layers) = Null THEN Threw(cur)
  ELSE addAll(addTextLayer(cur, Head(layers)).st, Tail(layers))

\* handleImportProject that calls reset() before it awaits the import
handleImportProject_resetFirst(cur, doc) ==
  LET r == importProjectData(doc)
      s0 == reset(cur).st
      s1 == IF r.imageData # Null THEN setImageData(s0, r.imageData).st ELSE s0
  IN IF r.out = "throw" THEN Threw(s0) ELSE addAll(s1, r.textLayers)

\* handleImportProject for the chosen file; a throw ends in alert()
handleImportProject(cur, doc) ==
  LET r == importProjectData(doc)
      s0 == reset(cur).st
      s1 == IF r.imageData # Null THEN setImageData(s0, r.imageData).st ELSE s0
  IN IF r.out = "throw" THEN Threw(cur) ELSE addAll(s1, r.textLayers)

\* saved.customFonts.forEach((font) => addCustomFont(font))
RECURSIVE addFonts(_, _)
addFonts(cur, fonts) ==
  IF fonts = <<>> THEN DidCommit(cur)
  ELSE addFonts(addCustomFont(cur, Head(fonts)).st, Tail(fonts))

\* handleRestoreAutosave, its calls of the store: saved is what loadState()
\* returned
handleRestoreAutosave(cur, saved) ==
  IF saved = Null THEN Returned(cur)
  ELSE LET s0 == reset(cur).st
           s1 == IF saved.imageData # Null
                   THEN setImageData(s0, saved.imageData).st ELSE s0
           r == addAll(s1, saved.textLayers)
       IN IF r.out = "throw" THEN r ELSE addFonts(r.st, saved.customFonts)

(***************************************************************************)
(* The page component and the tasks of the browser it waits for.  page     *)
(* holds: isExporting, the state of that name; exports, the calls of       *)
(* exportToPNG that have not run to their end, each with the arguments it  *)
(* was given and the event it waits for (at: "image" for onload/onerror of *)
(* the background image, "blob" for the callback of canvas.toBlob);        *)
(* clicks, the number of clicks on Export PNG; decodes, the Image objects  *)
(* of handleImageUpload that are still decoding; uploads, the number of    *)
(* calls of handleImageUpload; alert, the message of the latest alert() of *)
(* an upload ("": none).                                                   *)
(***************************************************************************)
NoPage == [isExporting |-> FALSE, exports |-> <<>>, clicks |-> 0,
           decodes |-> <<>>, uploads |-> 0, alert |-> ""]

\* Math.round(n / d) for n >= 0 and d > 0: halves are rounded up
MathRound(n, d) == (2 * n + d) \div (2 * d)

maxDisplaySize == 800

\* img.onload of handleImageUpload: the descriptor it hands to
\* setImageData.  aspectRatio > 1 is width > height; 800 / aspectRatio is
\* 800 * height / width and 800 * aspectRatio is 800 * width / height (as
\* exact quotients).
onload(img) ==
  LET scaled == img.width > maxDisplaySize \/ img.height > maxDisplaySize
      wide == img.width > img.height
  IN [src |-> img.src, width |-> img.width, height |-> img.height,
      displayWidth |->
        IF ~scaled THEN img.width
        ELSE IF wide THEN maxDisplaySize
        ELSE MathRound(maxDisplaySize * img.width, img.height),
      displayHeight |->
        IF ~scaled THEN img.height
        ELSE IF wide THEN MathRound(maxDisplaySize * img.height, img.width)
        ELSE maxDisplaySize]

\* handleImageUpload up to new Image(): the message it alerts for a file
\* it turns down, "" for a file it takes.  A file f is its type, its size
\* in bytes and what decoding it gives: ok with width and height, or not.
refusal(f) ==
  IF f.type # "image/png" THEN "Please select a PNG file"
  ELSE IF f.size > 10 * 1024 * 1024
    THEN "File size too large. Please select a PNG file smaller than 10MB"
  ELSE ""

\* URL.createObjectURL for the n-th file
createObjectURL(n) == "blob:" \o ToString(n)

\* the fontManager singleton as constructed.  customFonts is the map of
\* that name as the set of its values, revoked the object URLs that were
\* revoked, loads the number of calls of loadCustomFont.
NoFonts == [customFonts |-> {}, revoked |-> {}, loads |-> 0]

\* FontManager.loadCustomFont(f) at time now, for the font file f = [name
\* (without the extension), ext, ok (fontFace.load() succeeds)]: the font
\* it returns (Null: none) and the manager afterwards
loadCustomFont(fm, f, now) ==
  LET customFont ==
        [id |-> "custom-" \o ToString(now), name |-> f.name,
         family |-> f.name, url |-> "blob:font" \o ToString(fm.loads + 1),
         type |-> f.ext, loaded |-> TRUE]
  IN IF f.ext \in {"ttf", "otf", "woff", "woff2"} /\ f.ok
       THEN [font |-> customFont,
             fm |-> [fm EXCEPT
                       !.loads = @ + 1,
                       !.customFonts =
                         {c \in @ : c.id # customFont.id} \cup {customFont}]]
       ELSE [font |-> Null, fm |-> [fm EXCEPT !.loads = @ + 1]]

\* FontManager.removeCustomFont(fontId): the manager afterwards
FontManager_removeCustomFont(fm, fontId) ==
  LET fonts == {c \in fm.customFonts : c.id = fontId}
  IN [fm EXCEPT !.customFonts = @ \ fonts,
                !.revoked = @ \cup {c.url : c \in fonts}]

\* handleCustomFontUpload of the font selector of the selected layer, its
\* calls of the store: onCustomFontAdd(font), onFontChange(font.family)
handleCustomFontUpload(cur, font) ==
  IF font = Null THEN Returned(cur)
  ELSE updateTextLayer(addCustomFont(cur, font).st,
                       cur.present.selectedLayerId, [fontFamily |-> font.family])

\* handleCustomFontRemove(fontId), its calls of the store: onFontChange
\* when the font removed is the one of the selected layer, then
\* onCustomFontRemove(fontId)
handleCustomFontRemove(cur, fontId) ==
  LET fonts == cur.present.customFonts
      layers == cur.present.textLayers
      m == FirstMatch(layers, cur.present.selectedLayerId)
      used == \E i \in 1..Len(fonts) :
                /\ fonts[i].id = fontId
                /\ \A j \in 1..(i - 1) : fonts[j].id # fontId
                /\ fonts[i].family = layers[m].fontFamily
      s1 == IF used
              THEN updateTextLayer(cur, cur.present.selectedLayerId,
                                   [fontFamily |-> "Arial"]).st
              ELSE cur
  IN removeCustomFont(s1, fontId)

\* the array a without its k-th entry
Without(a, k) == SubSeq(a, 1, k - 1) \o SubSeq(a, k + 1, Len(a))

(***************************************************************************)
(* AutosaveManager and the timers of the browser.  autosave holds: time,   *)
(* the seconds since the page was loaded; timers, the timeouts that were   *)
(* set and have neither run nor been cleared; saveTimeout, the static      *)
(* field of that name (0 is null); slot, the value stored under            *)
(* STORAGE_KEY as JSON.parse reads it (Null: no such key); found, the      *)
(* slot as it was when the page was loaded; prompt, the flag               *)
(* showAutosaveRestore of the page; calls and writes, the saveState calls  *)
(* and the localStorage.setItem calls made so far, each with its time.     *)
(* localStorage accepts every write.                                       *)
(***************************************************************************)
\* 2000 ms
SAVE_INTERVAL == 2

\* 24 hours
maxAge == 24 * 60 * 60

NoAutosave ==
  [time |-> 0, timers |-> {}, saveTimeout |-> 0, slot |-> Null,
   found |-> Null, prompt |-> FALSE, calls |-> <<>>, writes |-> <<>>]

\* the arguments the autosave effect of the page passes to saveState
autosaveData(state) ==
  [imageData |-> state.imageData, textLayers |-> state.textLayers,
   customFonts |-> state.customFonts]

clearTimeout(timers, id) == {t \in timers : t.id # id}

\* saveState without clearTimeout
saveState_noClear(as, data) ==
  LET id == Len(as.calls) + 1
  IN [as EXCEPT
        !.timers = @ \cup {[id |-> id, data |-> data,
                            due |-> as.time + SAVE_INTERVAL]},
        !.saveTimeout = id,
        !.calls = Append(@, [data |-> data, at |-> as.time])]

\* saveState(imageData, textLayers, customFonts); setTimeout returns a
\* positive id that it has not returned before
saveState(as, data) ==
  LET id == Len(as.calls) + 1
      pending == IF as.saveTimeout # 0
                   THEN clearTimeout(as.timers, as.saveTimeout)
                   ELSE as.timers
  IN [as EXCEPT
        !.timers = pending \cup {[id |-> id, data |-> data,
                                  due |-> as.time + SAVE_INTERVAL]},
        !.saveTimeout = id,
        !.calls = Append(@, [data |-> data, at |-> as.time])]

\* the callback saveState handed to setTimeout, run for the timer t
saveCallback(as, t) ==
  [as EXCEPT
     !.timers = @ \ {t},
     !.slot = Spread(t.data, [timestamp |-> as.time]),
     !.writes = Append(@, [data |-> t.data, at |-> as.time])]

clearSave(as) == [as EXCEPT !.slot = Null]

\* loadState without the check of the age
loadState_noAge(as) == [saved |-> as.slot, as |-> as]

\* loadState(): the record it returns (saved) and the manager after it
loadState(as) ==
  IF as.slot = Null THEN [saved |-> Null, as |-> as]
  ELSE IF as.time - as.slot.timestamp > maxAge
    THEN [saved |-> Null, as |-> clearSave(as)]
  ELSE [saved |-> as.slot, as |-> as]

hasSavedState(as) == as.slot # Null

\* a render of the page: the restore prompt, while it is shown, calls
\* getSaveTimestamp(), which calls loadState()
render(as) == IF as.prompt THEN loadState(as).as ELSE as

(***************************************************************************)
(* History of the run, kept for the properties: last is the call that was  *)
(* made last and how it ended; log follows a run of commits and the undo   *)
(* and redo calls after it.  log.start is the store when the run began,    *)
(* log.presents[i] the present after its i-th commit, log.end the store    *)
(* after its last commit, log.k the number of undo (mode "undos") or redo  *)
(* (mode "redos") calls made since.  reset(), also the one an import       *)
(* makes, starts a new run.                                                *)
(***************************************************************************)
FreshStore == [past |-> <<>>, present |-> initialState, future |-> <<>>]

LogOff == [mode |-> "off", start |-> FreshStore, presents |-> <<>>,
           end |-> FreshStore, k |-> 0]
LogStart(st) == [mode |-> "commits", start |-> st, presents |-> <<>>,
                 end |-> st, k |-> 0]

Commits(l) == Len(l.presents)

NextLog(op, cur, r) ==
  IF op = "reset" THEN LogStart(r.st)
  ELSE IF op = "handleImportProject" /\ (r.out # "throw" \/ r.st # cur)
    THEN LogStart(r.st)
  ELSE IF r.out = "commit"
    THEN IF log.mode = "commits"
           THEN [log EXCEPT !.presents = Append(@, r.st.present),
                            !.end = r.st]
           ELSE [mode |-> "commits", start |-> cur,
                 presents |-> <<r.st.present>>, end |-> r.st, k |-> 0]
  ELSE IF op = "undo"
    THEN IF log.mode = "commits" /\ Commits(log) >= 1
           THEN [log EXCEPT !.mode = "undos", !.k = 1]
         ELSE IF log.mode = "undos" /\ log.k < Commits(log)
           THEN [log EXCEPT !.k = @ + 1]
         ELSE LogOff
  ELSE IF op = "redo"
    THEN IF log.mode = "undos" /\ log.k = Commits(log)
           THEN [log EXCEPT !.mode = "redos", !.k = 1]
         ELSE IF log.mode = "redos" /\ log.k < Commits(log)
           THEN [log EXCEPT !.k = @ + 1]
         ELSE LogOff
  ELSE IF r.out \in {"return", "throw"} THEN log
  ELSE LogOff

\* One call of a handler or store operation at time now: r is its outcome.
\* clock is the time of the latest call that read Date.now(), which never
\* returns less than it returned before; two calls may read the same value.
Step(now, op, args, r, cost) ==
  /\ fuel >= cost
  /\ fuel' = fuel - cost
  /\ past' = r.st.past
  /\ present' = r.st.present
  /\ future' = r.st.future
  /\ last' = [op |-> op, args |-> args, out |-> r.out]
  /\ log' = NextLog(op, Store, r)
  /\ clock' = now

\* a call of the store that is not followed to the screen
CallAt(now, op, args, r, cost) ==
  /\ Step(now, op, args, r, cost)
  /\ UNCHANGED <<screen, canvas, file, imported, autosave, page, fontManager>>

Call(op, args, r, cost) == CallAt(clock, op, args, r, cost)

(***************************************************************************)
(* Actions: one per store operation and handler.                           *)
(***************************************************************************)
Call_setImageData(imageData, cost) ==
  Call("setImageData", <<imageData>>, setImageData(Store, imageData), cost)

Call_addTextLayer(layer, cost) ==
  Call("addTextLayer", <<layer>>, addTextLayer(Store, layer), cost)

Call_updateTextLayer(id, updates, cost) ==
  Call("updateTextLayer", <<id, updates>>, updateTextLayer(Store, id, updates), cost)

Call_deleteTextLayer(id, cost) ==
  Call("deleteTextLayer", <<id>>, deleteTextLayer(Store, id), cost)

Call_moveLayerUp(id, cost) ==
  Call("moveLayerUp", <<id>>, moveLayerUp(Store, id), cost)

Call_moveLayerDown(id, cost) ==
  Call("moveLayerDown", <<id>>, moveLayerDown(Store, id), cost)

Call_duplicateLayer(id, now, cost) ==
  CallAt(now, "duplicateLayer", <<id, now>>, duplicateLayer(Store, id, now), cost)

Call_toggleLayerLock(id, cost) ==
  Call("toggleLayerLock", <<id>>, toggleLayerLock(Store, id), cost)

Call_toggleLayerVisibility(id, cost) ==
  Call("toggleLayerVisibility", <<id>>, toggleLayerVisibility(Store, id), cost)

Call_setSelectedLayerId(id, cost) ==
  Call("setSelectedLayerId", <<id>>, setSelectedLayerId(Store, id), cost)

Call_setSelectedLayerIds(ids, cost) ==
  Call("setSelectedLayerIds", <<ids>>, setSelectedLayerIds(Store, ids), cost)

Call_setSnapGuides(guides, cost) ==
  Call("setSnapGuides", <<guides>>, setSnapGuides(Store, guides), cost)

Call_addCustomFont(font, cost) ==
  Call("addCustomFont", <<font>>, addCustomFont(Store, font), cost)

Call_removeCustomFont(fontId, cost) ==
  Call("removeCustomFont", <<fontId>>, removeCustomFont(Store, fontId), cost)

Call_undo(cost) == Call("undo", <<>>, undo(Store), cost)

Call_redo(cost) == Call("redo", <<>>, redo(Store), cost)

Call_reset(cost) == Call("reset", <<>>, reset(Store), cost)

Call_handleAddTextLayer(now, cost) ==
  CallAt(now, "handleAddTextLayer", <<now>>, handleAddTextLayer(Store, now), cost)

\* the Bring to Front and Send to Back buttons of the layers panel
Call_bringToFront(id, cost) ==
  Call("bringToFront", <<id>>, bringToFront(Store, id), cost)

Call_sendToBack(id, cost) ==
  Call("sendToBack", <<id>>, sendToBack(Store, id), cost)

Call_handleKeyDown(ev, cost) ==
  Call("handleKeyDown", <<ev>>, handleKeyDown(Store, ev), cost)

(***************************************************************************)
(* Spec: every operation, from the store as constructed and from a store   *)
(* whose history is full, for MaxSteps calls.                              *)
(***************************************************************************)
\* the ids callers pass: those of the layers made at clock 1 and 2, one of
\* which matches no layer as long as only one layer was made
Ids == {1, 2}

Patches == {[x |-> 60], [text |-> "Hi", y |-> 70]}

NoCall == [op |-> "init", args |-> <<>>, out |-> "return"]

\* n presses of ArrowRight, one after the other, on the store s.  The
\* presses go on as long as the layer they move is there (CanNudge); the
\* first half of them is computed before the second half is applied to it.
RECURSIVE Presses(_, _)
Presses(s, n) ==
  IF n = 0 THEN s
  ELSE IF n = 1 THEN handleKeyDown(s, ArrowRight).st
  ELSE LET half == Presses(s, n \div 2)
       IN IF Len(half.present.textLayers) = 1
            THEN Presses(half, n - (n \div 2))
            ELSE half

\* The store after setImageData(Img1), handleAddTextLayer at clock 1 and n
\* presses of ArrowRight: the state SpecHist reaches by those calls.
Nudged(n) ==
  Presses(handleAddTextLayer(setImageData(FreshStore, Img1).st, 1).st, n)

FullStore == Nudged(MAX_HISTORY_SIZE - 1)

InitFresh ==
  /\ past = <<>>
  /\ present = initialState
  /\ future = <<>>
  /\ clock = 1
  /\ last = NoCall
  /\ log = LogStart(FreshStore)
  /\ screen = NoScreen
  /\ canvas = NoCanvas
  /\ file = Null
  /\ imported = NoImport
  /\ autosave = NoAutosave
  /\ page = NoPage
  /\ fontManager = NoFonts

InitFull ==
  /\ past = FullStore.past
  /\ present = FullStore.present
  /\ future = FullStore.future
  /\ clock = 1
  /\ last = NoCall
  /\ log = LogStart(FullStore)
  /\ screen = NoScreen
  /\ canvas = NoCanvas
  /\ file = Null
  /\ imported = NoImport
  /\ autosave = NoAutosave
  /\ page = NoPage
  /\ fontManager = NoFonts

Init == (InitFresh \/ InitFull) /\ fuel = MaxSteps

Next ==
  \/ \E im \in {Null, Img1} : Call_setImageData(im, 1)
  \/ \E layer \in {BareLayer(1), BareLayer(2), ZLayer(2)} :
       Call_addTextLayer(layer, 1)
  \/ \E id \in Ids, u \in Patches : Call_updateTextLayer(id, u, 1)
  \/ \E id \in Ids : Call_deleteTextLayer(id, 1)
  \/ \E id \in Ids : Call_moveLayerUp(id, 1)
  \/ \E id \in Ids : Call_moveLayerDown(id, 1)
  \/ \E id \in Ids, now \in clock..MaxClock : Call_duplicateLayer(id, now, 1)
  \/ \E id \in Ids : Call_toggleLayerLock(id, 1)
  \/ \E id \in Ids : Call_toggleLayerVisibility(id, 1)
  \/ \E id \in Ids \cup {NoId} : Call_setSelectedLayerId(id, 1)
  \/ Call_setSelectedLayerIds(<<1>>, 1)
  \/ Call_setSnapGuides(Guides1, 1)
  \/ Call_addCustomFont(Font1, 1)
  \/ Call_removeCustomFont(Font1.id, 1)
  \/ Call_undo(1)
  \/ Call_redo(1)
  \/ Call_reset(1)
  \/ \E now \in clock..MaxClock : Call_handleAddTextLayer(now, 1)
  \/ \E id \in Ids : Call_bringToFront(id, 1)
  \/ \E id \in Ids : Call_sendToBack(id, 1)

Spec == Init /\ [][Next]_vars

TypeOK ==
  /\ Len(past) <= MAX_HISTORY_SIZE
  /\ fuel \in 0..MaxSteps

(***************************************************************************)
(* SpecHist: long histories.  From the store as constructed: one image,    *)
(* one layer, ArrowRight presses on it, undo, redo and reset.  Every       *)
(* commit yields a present that differs from all earlier ones of the run.  *)
(***************************************************************************)
CanNudge ==
  /\ Len(present.textLayers) = 1
  /\ present.textLayers[1].x < NewLayer(1).x + MaxNudges

InitHist == InitFresh /\ fuel = 0

NextHist ==
  \/ present.imageData = Null /\ Call_setImageData(Img1, 0)
  \/ Len(present.textLayers) = 0 /\ Call_handleAddTextLayer(clock, 0)
  \/ CanNudge /\ Call_handleKeyDown(ArrowRight, 0)
  \/ Call_undo(0)
  \/ Call_redo(0)
  \/ Call_reset(0)

SpecHist == InitHist /\ [][NextHist]_vars

\* the initial state InitFull of Spec is a state SpecHist reaches
FullReached == Store = FullStore /\ clock = 1

(***************************************************************************)
(* SpecExport: rendering and project files.  From the store as             *)
(* constructed: an image is set, up to MaxLayers layers of different       *)
(* styles are added, each change followed by the redraw of the preview;    *)
(* the composition is exported as PNG, the project is exported to a file   *)
(* and that file is imported before the next edit.  canvas and imported    *)
(* are values local to one call of their handler: they are kept until the  *)
(* next call of any handler.                                               *)
(***************************************************************************)
\* a layer with only the properties the TextLayer interface requires
PlainLayer(id) ==
  Omit(NewLayer(id), {"rotation", "scaleX", "scaleY", "locked", "visible",
                      "fontStyle", "textDecoration", "shadowOpacity", "zIndex"})

LayerKinds == {"left", "center", "right", "hidden", "turned", "plain"}

\* the layers put on the image: NewLayer as the property panel and a
\* project file can have changed it
LayerOf(kind, id) ==
  CASE kind = "left" -> NewLayer(id)
    [] kind = "center" -> Spread(NewLayer(id), [align |-> "center", x |-> 400])
    [] kind = "right" ->
         Spread(NewLayer(id), [align |-> "right", text |-> "L1\nL2",
                               zIndex |-> 1])
    [] kind = "hidden" -> Spread(NewLayer(id), [visible |-> FALSE])
    [] kind = "turned" ->
         Spread(NewLayer(id), [rotation |-> 90, scaleX |-> 2, shadowBlur |-> 4,
                               shadowOffsetX |-> 2, zIndex |-> -1])
    [] kind = "plain" -> PlainLayer(id)

\* a call of the store followed by the redraw
Shown(op, args, r) ==
  /\ Step(clock, op, args, rendered(r), 0)
  /\ screen' = draw(r.st.present).screen

Show_setImageData(imageData) ==
  /\ Shown("setImageData", <<imageData>>, setImageData(Store, imageData))
  /\ canvas' = NoCanvas
  /\ imported' = NoImport
  /\ UNCHANGED <<file, autosave, page, fontManager>>

Show_addTextLayer(layer) ==
  /\ Shown("addTextLayer", <<layer>>, addTextLayer(Store, layer))
  /\ canvas' = NoCanvas
  /\ imported' = NoImport
  /\ UNCHANGED <<file, autosave, page, fontManager>>

\* the message handleExportPNG hands to alert(), "" when it calls none:
\* without an image it alerts and returns, and it alerts the message of
\* the error the awaited exportToPNG rejected with.  res is what
\* exportToPNG settled to.
alertOfExport(imageData, res) ==
  IF imageData = Null THEN "Please upload an image first"
  ELSE IF res.out = "throw" THEN res.error
  ELSE ""

\* handleExportPNG run to its end in one step, the events it waits for
\* included (SpecBusy follows them one by one, and the busy flag)
Call_handleExportPNG(env) ==
  LET res == IF present.imageData = Null THEN NoCanvas
             ELSE exportToPNG(present.imageData, present.textLayers, env)
  IN /\ Step(clock, "handleExportPNG", <<env>>,
              [out |-> IF present.imageData = Null THEN "return" ELSE res.out,
               st |-> Store], 0)
     /\ canvas' = [res EXCEPT !.alert = alertOfExport(present.imageData, res)]
     /\ imported' = NoImport
     /\ UNCHANGED <<screen, file, autosave, page, fontManager>>

Call_handleExportProject ==
  /\ Step(clock, "handleExportProject", <<>>, [out |-> "ok", st |-> Store], 0)
  /\ file' = exportProjectData(present.imageData, present.textLayers, clock)
  /\ canvas' = NoCanvas
  /\ imported' = NoImport
  /\ UNCHANGED <<screen, autosave, page, fontManager>>

\* handleImportProject for the file doc chosen in the file input, which
\* the handler clears at its end
ImportFile(doc) ==
  /\ Shown("handleImportProject", <<doc>>, handleImportProject(Store, doc))
  /\ imported' = importProjectData(doc)
  /\ file' = Null
  /\ canvas' = NoCanvas
  /\ UNCHANGED <<autosave, page, fontManager>>

\* the file chosen is the one handleExportProject downloaded
Call_handleImportProject ==
  /\ file # Null
  /\ ImportFile(file)

InitExport == InitFresh /\ fuel = 0

NextExport ==
  \/ /\ file = Null
     /\ present.imageData = Null
     /\ \E im \in {Img1, Img2} : Show_setImageData(im)
  \/ /\ file = Null
     /\ Len(present.textLayers) < MaxLayers
     /\ \E kind \in LayerKinds :
          Show_addTextLayer(LayerOf(kind, Len(present.textLayers) + 1))
  \/ \E env \in Envs : Call_handleExportPNG(env)
  \/ Call_handleExportProject
  \/ Call_handleImportProject

SpecExport == InitExport /\ [][NextExport]_vars

(***************************************************************************)
(* SpecImport: project files of any content.  From the store as            *)
(* constructed: an image is set, layers are added, and files that were     *)
(* written or edited outside the editor are imported.                      *)
(***************************************************************************)
\* The JSON values of the files chosen: a text JSON.parse rejects, the text
\* null, documents without version or textLayers, a document with an empty
\* version, and documents with both (without image, with a null image,
\* with an image and one or two layers, with a null entry in the layer
\* list).
Docs ==
  {Unparseable, Null, [timestamp |-> 1], [version |-> "1.0"],
   [textLayers |-> <<>>],
   [version |-> "", textLayers |-> <<>>],
   [version |-> "1.0", textLayers |-> <<>>],
   [version |-> "1.0", textLayers |-> <<>>, imageData |-> Null],
   [version |-> "1.0", textLayers |-> <<NewLayer(1)>>, imageData |-> Img2],
   [version |-> "1.0", textLayers |-> <<NewLayer(1), BareLayer(2)>>,
    imageData |-> Img1],
   [version |-> "1.0", textLayers |-> <<BareLayer(1), Null>>,
    imageData |-> Img1]}

Call_importFile(doc) == file = Null /\ ImportFile(doc)

NextImport ==
  \/ present.imageData = Null /\ Show_setImageData(Img1)
  \/ /\ Len(present.textLayers) < MaxLayers
     /\ \E kind \in {"left", "hidden"} :
          Show_addTextLayer(LayerOf(kind, Len(present.textLayers) + 1))
  \/ \E doc \in Docs : Call_importFile(doc)

SpecImport == InitExport /\ [][NextImport]_vars

(***************************************************************************)
(* SpecAutosave: the page from its load on, with the autosave timer.       *)
(* The initial state is the page after its mount effects: isClient is      *)
(* true, the autosave effect has called saveState for the empty editor,    *)
(* and the restore prompt is shown if the slot holds a record.  After      *)
(* every change of imageData, textLayers or customFonts the autosave       *)
(* effect calls saveState.  A timeout runs when it is due, before any      *)
(* later event; time passes in seconds.                                    *)
(***************************************************************************)
\* the record an earlier session left, one second before the page loaded
SavedRecord ==
  [imageData |-> Img2, textLayers |-> <<BareLayer(1)>>,
   customFonts |-> <<Font1>>, timestamp |-> -1]

\* the record of a session that ended 24 hours and one second before
StaleRecord == [SavedRecord EXCEPT !.timestamp = -(maxAge + 1)]

\* the record of a session that ended 24 hours before, to the second
EdgeRecord == [SavedRecord EXCEPT !.timestamp = -maxAge]

\* the page once its mount effects have run and the prompt, if any, is
\* rendered
mounted(slot) ==
  LET loaded == [NoAutosave EXCEPT !.slot = slot, !.found = slot]
  IN render(saveState([loaded EXCEPT !.prompt = hasSavedState(loaded)],
                      autosaveData(initialState)))

NoneDue == \A t \in autosave.timers : autosave.time < t.due

\* a call of the store, the render and the autosave effect that follow it
Saved(op, args, r) ==
  /\ NoneDue
  /\ Step(clock, op, args, r, 0)
  /\ autosave' = saveState(render(autosave), autosaveData(r.st.present))
  /\ UNCHANGED <<screen, canvas, file, imported, page, fontManager>>

Edit_setImageData(imageData) ==
  Saved("setImageData", <<imageData>>, setImageData(Store, imageData))

Edit_addTextLayer(layer) ==
  Saved("addTextLayer", <<layer>>, addTextLayer(Store, layer))

\* Restore of the prompt.  The effect runs when the store holds other
\* objects than before: not when the empty record is restored into the
\* store as constructed.
Call_handleRestoreAutosave ==
  LET l == loadState(autosave)
      r == handleRestoreAutosave(Store, l.saved)
      as == [l.as EXCEPT !.prompt = FALSE]
      empty == autosaveData(initialState)
      changed == /\ l.saved # Null
                 /\ ~(/\ autosaveData(present) = empty
                      /\ autosaveData(r.st.present) = empty)
  IN /\ autosave.prompt
     /\ NoneDue
     /\ Step(clock, "handleRestoreAutosave", <<>>, r, 0)
     /\ autosave' = IF changed
                      THEN saveState(as, autosaveData(r.st.present))
                      ELSE as
     /\ UNCHANGED <<screen, canvas, file, imported, page, fontManager>>

\* Discard of the prompt
Call_handleDiscardAutosave ==
  /\ autosave.prompt
  /\ NoneDue
  /\ Step(clock, "handleDiscardAutosave", <<>>, Returned(Store), 0)
  /\ autosave' = [clearSave(autosave) EXCEPT !.prompt = FALSE]
  /\ UNCHANGED <<screen, canvas, file, imported, page, fontManager>>

\* a timeout that is due runs
Timeout ==
  /\ \E t \in autosave.timers :
       /\ autosave.time >= t.due
       /\ autosave' = saveCallback(autosave, t)
  /\ UNCHANGED <<past, present, future, clock, fuel, last, log,
                 screen, canvas, file, imported, page, fontManager>>

\* a second passes
Tick ==
  /\ NoneDue
  /\ autosave.time < MaxTime \/ autosave.timers # {}
  /\ autosave' = [autosave EXCEPT !.time = @ + 1]
  /\ UNCHANGED <<past, present, future, clock, fuel, last, log,
                 screen, canvas, file, imported, page, fontManager>>

InitAutosave ==
  /\ past = <<>>
  /\ present = initialState
  /\ future = <<>>
  /\ clock = 1
  /\ fuel = 0
  /\ last = NoCall
  /\ log = LogStart(FreshStore)
  /\ screen = NoScreen
  /\ canvas = NoCanvas
  /\ file = Null
  /\ imported = NoImport
  /\ autosave \in {mounted(Null), mounted(SavedRecord),
                   mounted(StaleRecord), mounted(EdgeRecord)}
  /\ page = NoPage
  /\ fontManager = NoFonts

NextAutosave ==
  \/ /\ autosave.time <= MaxTime
     /\ present.imageData = Null
     /\ Edit_setImageData(Img1)
  \/ /\ autosave.time <= MaxTime
     /\ Len(present.textLayers) < MaxLayers
     /\ Edit_addTextLayer(BareLayer(Len(present.textLayers) + 1))
  \/ Call_handleRestoreAutosave
  \/ Call_handleDiscardAutosave
  \/ Timeout
  \/ Tick

SpecAutosave ==
  InitAutosave /\ [][NextAutosave]_vars /\ WF_vars(Timeout) /\ WF_vars(Tick)

(***************************************************************************)
(* SpecBusy: the PNG export event by event.  An image is set, layers are   *)
(* added, Export PNG is clicked up to MaxExports times, and the image      *)
(* loads and blob callbacks the exports wait for arrive in any order.      *)
(***************************************************************************)
\* handleExportPNG up to the first event it waits for.  The button is
\* rendered when there is an image and is disabled while isExporting.
\* context: getContext("2d") returned a context.  Without one exportToPNG
\* rejects at once, and catch and finally run before any other event.
Click_handleExportPNG(context) ==
  LET failed == exportToPNG(present.imageData, present.textLayers, "noContext")
      export == [imageData |-> present.imageData,
                 textLayers |-> present.textLayers, at |-> "image"]
  IN /\ present.imageData # Null
     /\ ~page.isExporting
     /\ page.clicks < MaxExports
     /\ Step(clock, "handleExportPNG", <<context>>,
              [out |-> IF context THEN "await" ELSE "throw", st |-> Store], 0)
     /\ page' = IF context
                  THEN [page EXCEPT !.isExporting = TRUE,
                                    !.exports = Append(@, export),
                                    !.clicks = @ + 1]
                  ELSE [page EXCEPT !.clicks = @ + 1]
     /\ canvas' = IF context THEN canvas
                  ELSE [failed EXCEPT
                          !.alert = alertOfExport(present.imageData, failed)]
     /\ UNCHANGED <<screen, file, imported, autosave, fontManager>>

\* onload (loaded) or onerror of the background image of the k-th export
\* in flight.  After onload exportToPNG draws, calls canvas.toBlob and
\* returns: the promise handleExportPNG awaits is fulfilled, and its
\* finally block runs before the callback of toBlob can.  After onerror,
\* or when drawing throws, the promise is rejected: catch alerts, finally
\* runs.
ImageSettled(k, loaded) ==
  LET export == page.exports[k]
      res == exportToPNG(export.imageData, export.textLayers,
                         IF loaded THEN "ok" ELSE "imageError")
  IN /\ export.at = "image"
     /\ page' = [page EXCEPT
                   !.isExporting = FALSE,
                   !.exports = IF res.out = "throw" THEN Without(@, k)
                               ELSE [@ EXCEPT ![k].at = "blob"]]
     /\ canvas' = IF res.out = "throw"
                    THEN [res EXCEPT
                            !.alert = alertOfExport(export.imageData, res)]
                    ELSE canvas
     /\ UNCHANGED <<past, present, future, clock, fuel, last, log,
                    screen, file, imported, autosave, fontManager>>

\* the callback of canvas.toBlob of the k-th export in flight, with a blob
\* (the download is triggered) or with null (the callback throws, and
\* nothing catches it)
BlobSettled(k, blob) ==
  LET export == page.exports[k]
      res == exportToPNG(export.imageData, export.textLayers,
                         IF blob THEN "ok" ELSE "noBlob")
  IN /\ export.at = "blob"
     /\ page' = [page EXCEPT !.exports = Without(@, k)]
     /\ canvas' = res
     /\ UNCHANGED <<past, present, future, clock, fuel, last, log,
                    screen, file, imported, autosave, fontManager>>

NextBusy ==
  \/ /\ present.imageData = Null
     /\ Show_setImageData(Img1)
  \/ /\ present.imageData # Null
     /\ Len(present.textLayers) < MaxLayers
     /\ \E kind \in {"left", "hidden"} :
          Show_addTextLayer(LayerOf(kind, Len(present.textLayers) + 1))
  \/ \E context \in BOOLEAN : Click_handleExportPNG(context)
  \/ \E k \in 1..Len(page.exports), loaded \in BOOLEAN :
       ImageSettled(k, loaded)
  \/ \E k \in 1..Len(page.exports), blob \in BOOLEAN : BlobSettled(k, blob)

SpecBusy == InitExport /\ [][NextBusy]_vars

(***************************************************************************)
(* SpecUpload: image files.  Up to MaxUploads files are handed to          *)
(* handleImageUpload, and the images decode in any order.                  *)
(***************************************************************************)
Sizes == {1, 301, 800, 1000, 2000}

PngFile(width, height) ==
  [type |-> "image/png", size |-> 1024, ok |-> TRUE,
   width |-> width, height |-> height]

\* PNG files of every size, a JPEG file, a PNG file of more than 10 MB and
\* a PNG file that does not decode
Files ==
  {PngFile(w, h) : w \in Sizes, h \in Sizes}
    \cup {[PngFile(1, 1) EXCEPT !.type = "image/jpeg"],
          [PngFile(1, 1) EXCEPT !.size = 10 * 1024 * 1024 + 1],
          [PngFile(1, 1) EXCEPT !.ok = FALSE]}

\* handleImageUpload(f) for the file f: alerts and returns, or sets img.src
Call_handleImageUpload(f) ==
  LET img == [src |-> createObjectURL(page.uploads + 1), ok |-> f.ok,
              width |-> f.width, height |-> f.height]
  IN /\ page.uploads < MaxUploads
     /\ Step(clock, "handleImageUpload", <<f>>, Returned(Store), 0)
     /\ page' = [page EXCEPT
                   !.uploads = @ + 1,
                   !.alert = refusal(f),
                   !.decodes = IF refusal(f) = "" THEN Append(@, img)
                               ELSE @]
     /\ UNCHANGED <<screen, canvas, file, imported, autosave, fontManager>>

\* img.onload of the k-th image that is decoding
Decoded(k) ==
  LET img == page.decodes[k]
      imageData == onload(img)
  IN /\ img.ok
     /\ Shown("setImageData", <<imageData>>, setImageData(Store, imageData))
     /\ page' = [page EXCEPT !.decodes = Without(@, k)]
     /\ canvas' = NoCanvas
     /\ imported' = NoImport
     /\ UNCHANGED <<file, autosave, fontManager>>

\* img.onerror of the k-th image that is decoding
DecodeFailed(k) ==
  /\ ~page.decodes[k].ok
  /\ page' = [page EXCEPT
       !.decodes = Without(@, k),
       !.alert =
         "Failed to load image. Please try again with a different PNG file."]
  /\ UNCHANGED <<past, present, future, clock, fuel, last, log,
                 screen, canvas, file, imported, autosave, fontManager>>

NextUpload ==
  \/ \E f \in Files : Call_handleImageUpload(f)
  \/ \E k \in 1..Len(page.decodes) : Decoded(k)
  \/ \E k \in 1..Len(page.decodes) : DecodeFailed(k)

SpecUpload == InitExport /\ [][NextUpload]_vars

(***************************************************************************)
(* SpecEdit: edits of the layers on the screen.  An image is set, up to    *)
(* MaxLayers layers are added, and MaxEdits edits, key presses and clicks  *)
(* on the canvas are made, each followed by the redraw.                    *)
(***************************************************************************)
\* an edit, a key press or a click: a handler calls the store, and the
\* redraw follows
Edited(op, args, r) ==
  /\ Step(clock, op, args, rendered(r), 1)
  /\ screen' = draw(r.st.present).screen
  /\ canvas' = NoCanvas
  /\ imported' = NoImport
  /\ UNCHANGED <<file, autosave, page, fontManager>>

\* the box of a layer on the preview canvas: layer.width || 100 wide,
\* layer.height || layer.fontSize || 16 high
layerBounds(layer) ==
  [left |-> layer.x, top |-> layer.y,
   right |-> layer.x + OrElse(layer, "width", 100),
   bottom |-> layer.y + OrElse(layer, "height", OrElse(layer, "fontSize", 16))]

\* the test of one pass of the loop of handleMouseDown: the layer is not
\* skipped and its box holds the point
clicked(layer, point) ==
  /\ Truthy(layer, "visible")
  /\ ~Truthy(layer, "locked")
  /\ point.x >= layerBounds(layer).left
  /\ point.x <= layerBounds(layer).right
  /\ point.y >= layerBounds(layer).top
  /\ point.y <= layerBounds(layer).bottom

\* handleMouseDown with the loop running from the first layer
handleMouseDown_first(cur, point) ==
  LET layers == cur.present.textLayers
      found == {i \in 1..Len(layers) : clicked(layers[i], point)}
  IN IF found # {}
       THEN setSelectedLayerId(cur,
              layers[CHOOSE i \in found : \A j \in found : j >= i].id)
       ELSE setSelectedLayerId(cur, NoId)

\* handleMouseDown of the preview canvas; point is the position of the
\* pointer relative to the canvas.  The loop runs from the last layer to
\* the first and stops at the first layer it does not skip whose box
\* holds the point; onLayerSelect is setSelectedLayerId.  Reading a
\* property of an undefined entry throws.
handleMouseDown(cur, point) ==
  LET layers == cur.present.textLayers
      found == {i \in 1..Len(layers) : clicked(layers[i], point)}
  IN IF HasUndefined(layers) THEN Threw(cur)
     ELSE IF found # {}
       THEN setSelectedLayerId(cur,
              layers[CHOOSE i \in found : \A j \in found : j <= i].id)
       ELSE setSelectedLayerId(cur, NoId)

\* where the pointer goes down: on the box of a layer at x 50 only, on
\* the boxes of layers at x 50 and at x 60, on the box of a layer at x 60
\* only, and on no box
MousePoints == {[x |-> 55, y |-> 60], [x |-> 70, y |-> 60],
                [x |-> 95, y |-> 60], [x |-> 5, y |-> 5]}

\* a mouse-down on the preview canvas, and the redraw
Click_handleMouseDown(point) ==
  /\ present.imageData # Null
  /\ Edited("handleMouseDown", <<point>>, handleMouseDown(Store, point))

\* the eye and the lock buttons of the layer list
Edit_toggleLayerVisibility(id) ==
  Edited("toggleLayerVisibility", <<id>>, toggleLayerVisibility(Store, id))

Edit_toggleLayerLock(id) ==
  Edited("toggleLayerLock", <<id>>, toggleLayerLock(Store, id))

\* the keys pressed with the focus on the page: Ctrl+ArrowUp,
\* Ctrl+ArrowDown, ArrowUp and Shift+ArrowDown
KeyEvents ==
  {[key |-> "ArrowUp", mod |-> TRUE, shift |-> FALSE, typing |-> FALSE],
   [key |-> "ArrowDown", mod |-> TRUE, shift |-> FALSE, typing |-> FALSE],
   [key |-> "ArrowUp", mod |-> FALSE, shift |-> FALSE, typing |-> FALSE],
   [key |-> "ArrowDown", mod |-> FALSE, shift |-> TRUE, typing |-> FALSE]}

\* a key pressed while a layer is selected, and the redraw
Key_handleKeyDown(ev) ==
  /\ FirstMatch(present.textLayers, present.selectedLayerId) # 0
  /\ Edited("handleKeyDown", <<ev>>, handleKeyDown(Store, ev))

\* the properties panel: text, font size and x of the selected layer
EditPatches == {[text |-> "Hi"], [fontSize |-> 48], [x |-> 60]}

Edit_updateTextLayer(id, updates) ==
  Edited("updateTextLayer", <<id, updates>>, updateTextLayer(Store, id, updates))

InitEdit == InitFresh /\ fuel = MaxEdits

NextEdit ==
  \/ /\ present.imageData = Null
     /\ Show_setImageData(Img1)
  \/ /\ present.imageData # Null
     /\ Len(present.textLayers) < MaxLayers
     /\ Show_addTextLayer(LayerOf("left", Len(present.textLayers) + 1))
  \/ \E u \in EditPatches :
       /\ FirstMatch(present.textLayers, present.selectedLayerId) # 0
       /\ Edit_updateTextLayer(present.selectedLayerId, u)
  \/ \E ev \in KeyEvents : Key_handleKeyDown(ev)
  \/ \E i \in 1..Len(present.textLayers) :
       Edit_toggleLayerVisibility(present.textLayers[i].id)
  \/ \E i \in 1..Len(present.textLayers) :
       Edit_toggleLayerLock(present.textLayers[i].id)
  \/ \E point \in MousePoints : Click_handleMouseDown(point)

SpecEdit == InitEdit /\ [][NextEdit]_vars

(***************************************************************************)
(* SpecFonts: custom fonts.  An image is set and a layer added, which is   *)
(* then the selected one; in its font selector font files are uploaded and *)
(* custom fonts removed (MaxEdits times together), with undo and redo in   *)
(* between.  Every file is chosen in a file dialog: no two uploads read    *)
(* the same Date.now().                                                    *)
(***************************************************************************)
FontFiles ==
  {[name |-> "Brand", ext |-> "ttf", ok |-> TRUE],
   [name |-> "Hand", ext |-> "woff2", ok |-> TRUE],
   [name |-> "Brand", ext |-> "exe", ok |-> TRUE],
   [name |-> "Torn", ext |-> "otf", ok |-> FALSE]}

\* the font selector is rendered for the selected layer
HasSelectedLayer ==
  /\ ~HasUndefined(present.textLayers)
  /\ FirstMatch(present.textLayers, present.selectedLayerId) # 0

Call_handleCustomFontUpload(f, now) ==
  LET l == loadCustomFont(fontManager, f, now)
  IN /\ HasSelectedLayer
     /\ Step(now, "handleCustomFontUpload", <<f>>,
              handleCustomFontUpload(Store, l.font), 1)
     /\ fontManager' = l.fm
     /\ UNCHANGED <<screen, canvas, file, imported, autosave, page>>

Call_handleCustomFontRemove(fontId) ==
  /\ HasSelectedLayer
  /\ Step(clock, "handleCustomFontRemove", <<fontId>>,
           handleCustomFontRemove(Store, fontId), 1)
  /\ fontManager' = FontManager_removeCustomFont(fontManager, fontId)
  /\ UNCHANGED <<screen, canvas, file, imported, autosave, page>>

InitFonts == InitFresh /\ fuel = MaxEdits

NextFonts ==
  \/ /\ present.imageData = Null
     /\ Call_setImageData(Img1, 0)
  \/ /\ present.imageData # Null
     /\ present.textLayers = <<>>
     /\ Call_addTextLayer(NewLayer(1), 0)
  \/ \E f \in FontFiles : Call_handleCustomFontUpload(f, clock + 1)
  \/ \E i \in 1..Len(present.customFonts) :
       Call_handleCustomFontRemove(present.customFonts[i].id)
  \/ Call_undo(0)
  \/ Call_redo(0)

SpecFonts == InitFonts /\ [][NextFonts]_vars

(***************************************************************************)
(* Properties.  Called(op) holds of a step that is one call of op.         *)
(***************************************************************************)
Called(op) == last'.op = op /\ vars' # vars

HistoryOps ==
  {"setImageData", "addTextLayer", "updateTextLayer", "deleteTextLayer",
   "moveLayerUp", "moveLayerDown", "duplicateLayer", "toggleLayerLock",
   "toggleLayerVisibility", "addCustomFont", "removeCustomFont"}

\* past ++ [present], truncated from the front to MAX_HISTORY_SIZE entries
Pushed(ps, p) ==
  IF Len(ps) < MAX_HISTORY_SIZE THEN Append(ps, p) ELSE Append(Tail(ps), p)

ResultOf(op, args, p, q) ==
  CASE op = "setImageData" -> q = [p EXCEPT !.imageData = args[1]]
    [] op = "addTextLayer" ->
         q = [p EXCEPT !.textLayers = Append(@, args[1]),
                       !.selectedLayerId = args[1].id]
    [] op = "addCustomFont" -> q = [p EXCEPT !.customFonts = Append(@, args[1])]
    [] op = "removeCustomFont" ->
         q = [p EXCEPT !.customFonts = SelectSeq(@, LAMBDA f : f.id # args[1])]
    [] OTHER ->
         /\ q.imageData = p.imageData
         /\ q.customFonts = p.customFonts
         /\ q.selectedLayerIds = p.selectedLayerIds
         /\ q.snapGuides = p.snapGuides

\* C1: every history-recording operation that takes effect performs exactly
\* one commit: the new past is the old past with the old present appended,
\* truncated from the front to 25 entries, the new future is empty and the
\* new present is what the operation produced.
C1_OneCommit ==
  [][\A op \in HistoryOps :
       (Called(op) /\ last'.out = "commit") =>
         /\ past' = Pushed(past, present)
         /\ future' = <<>>
         /\ ResultOf(op, last'.args, present, present')]_vars

\* a commit on a full history: the oldest entry of the full store is gone
C1_Witness ==
  /\ last.op = "toggleLayerVisibility"
  /\ last.out = "commit"
  /\ Len(past) = MAX_HISTORY_SIZE
  /\ past[1] = FullStore.past[2]
  /\ past[MAX_HISTORY_SIZE] = FullStore.present

\* C2: undo() changes nothing when past is empty; otherwise the present
\* becomes the last element of past, past loses that element and the old
\* present is put in front of future.
C2_Undo ==
  [][Called("undo") =>
       IF Len(past) = 0
         THEN past' = past /\ present' = present /\ future' = future
         ELSE /\ present' = past[Len(past)]
              /\ past' = SubSeq(past, 1, Len(past) - 1)
              /\ future' = <<present>> \o future]_vars

C2_Witness ==
  /\ last.op = "undo"
  /\ last.out = "set"
  /\ Len(future) = 2
  /\ Len(past) > 0

\* C3: redo() changes nothing when future is empty; otherwise the present
\* becomes the first element of future, future loses that element and the
\* old present is appended to past.
C3_Redo ==
  [][Called("redo") =>
       IF Len(future) = 0
         THEN past' = past /\ present' = present /\ future' = future
         ELSE /\ present' = future[1]
              /\ future' = Tail(future)
              /\ past' = Append(past, present)]_vars

C3_Witness ==
  /\ last.op = "redo"
  /\ last.out = "set"
  /\ Len(future) = 1
  /\ Len(past) = MAX_HISTORY_SIZE - 1

C5_Bounded ==
  /\ Len(past) <= MAX_HISTORY_SIZE
  /\ (/\ log.mode = "commits"
      /\ log.start = FreshStore
      /\ Commits(log) > MAX_HISTORY_SIZE)
       => past[1] = log.presents[Commits(log) - MAX_HISTORY_SIZE]

C5_Witness ==
  /\ log.mode = "commits"
  /\ log.start = FreshStore
  /\ Commits(log) = MAX_HISTORY_SIZE + 1
  /\ Len(past) = MAX_HISTORY_SIZE

\* C6: setSelectedLayerId, setSelectedLayerIds and setSnapGuides leave past
\* and future as they are and change only their own field of present.
C6_SelectionOnly ==
  [][/\ Called("setSelectedLayerId") =>
          /\ past' = past /\ future' = future
          /\ present' = [present EXCEPT !.selectedLayerId = last'.args[1]]
     /\ Called("setSelectedLayerIds") =>
          /\ past' = past /\ future' = future
          /\ present' = [present EXCEPT !.selectedLayerIds = last'.args[1]]
     /\ Called("setSnapGuides") =>
          /\ past' = past /\ future' = future
          /\ present' = [present EXCEPT !.snapGuides = last'.args[1]]]_vars

\* a selection change with undo and redo both still available
C6_Witness ==
  /\ last.op = "setSelectedLayerId"
  /\ present.selectedLayerId = NoId
  /\ Len(present.textLayers) > 0
  /\ Len(past) > 0
  /\ Len(future) > 0

\* C7: reset() leaves an empty past, an empty future and the initial empty
\* state as present, so that neither undo nor redo is available.
C7_Reset ==
  [][Called("reset") =>
       /\ past' = <<>>
       /\ future' = <<>>
       /\ present'.imageData = Null
       /\ present'.textLayers = <<>>
       /\ present'.selectedLayerId = NoId
       /\ present'.customFonts = <<>>
       /\ present' = initialState
       /\ ~canUndo([past |-> past', present |-> present', future |-> future'])
       /\ ~canRedo([past |-> past', present |-> present', future |-> future'])]_vars

C7_Witness ==
  /\ last.op = "reset"
  /\ past = <<>>
  /\ future = <<>>
  /\ present = initialState
  /\ fuel = MaxSteps - 3

HasId(layers, id) == \E i \in 1..Len(layers) : Matches(layers, i, id)

\* C8: addTextLayer(layer) appends layer and selects it; when a layer with
\* the same id is already present the call fails and past, present and
\* future stay as they were.
C8_AddValidates ==
  [][Called("addTextLayer") =>
       IF HasId(present.textLayers, last'.args[1].id)
         THEN past' = past /\ present' = present /\ future' = future
         ELSE /\ present'.textLayers = Append(present.textLayers, last'.args[1])
              /\ present'.selectedLayerId = last'.args[1].id]_vars

UniqueIds(layers) ==
  \A i, j \in 1..Len(layers) :
    (i # j /\ layers[i] # Undefined /\ layers[j] # Undefined)
      => layers[i].id # layers[j].id

\* C9: in present and in every state held in past or future the ids of the
\* layers are pairwise distinct.
C9_UniqueIds ==
  /\ UniqueIds(present.textLayers)
  /\ \A i \in 1..Len(past) : UniqueIds(past[i].textLayers)
  /\ \A i \in 1..Len(future) : UniqueIds(future[i].textLayers)

\* C10: updateTextLayer(id, patch) replaces each layer with that id by the
\* layer with the patch fields merged over it and leaves the other layers,
\* the order and length of the list, the image, the selection and the
\* custom fonts as they were; with no such layer the list is unchanged.
C10_Update ==
  [][(Called("updateTextLayer") /\ last'.out = "commit") =>
       LET id == last'.args[1]
           patch == last'.args[2]
           old == present.textLayers
           new == present'.textLayers
       IN /\ Len(new) = Len(old)
          /\ \A i \in 1..Len(old) :
               IF old[i].id = id
                 THEN /\ DOMAIN new[i] = (DOMAIN old[i]) \cup (DOMAIN patch)
                      /\ \A f \in DOMAIN patch : new[i][f] = patch[f]
                      /\ \A f \in (DOMAIN old[i]) \ (DOMAIN patch) :
                           new[i][f] = old[i][f]
                 ELSE new[i] = old[i]
          /\ (~HasId(old, id) => new = old)
          /\ present'.imageData = present.imageData
          /\ present'.selectedLayerId = present.selectedLayerId
          /\ present'.selectedLayerIds = present.selectedLayerIds
          /\ present'.customFonts = present.customFonts]_vars

\* an update of the second of two layers
C10_Witness ==
  /\ last.op = "updateTextLayer"
  /\ last.out = "commit"
  /\ Len(present.textLayers) = 2
  /\ present.textLayers[2].id = last.args[1]
  /\ present.textLayers[1].id # last.args[1]
  /\ present.textLayers[2].x = 60
  /\ present.textLayers[2].text = "A"

\* the fields of present no layer operation touches
SameFrame(p, q) ==
  /\ q.imageData = p.imageData
  /\ q.customFonts = p.customFonts
  /\ q.selectedLayerIds = p.selectedLayerIds
  /\ q.snapGuides = p.snapGuides

\* C11: deleteTextLayer(id) removes the layer with that id and keeps the
\* remaining layers in their order; selectedLayerId becomes null if it was
\* equal to id and is unchanged otherwise.
C11_Delete ==
  [][(Called("deleteTextLayer") /\ last'.out = "commit") =>
       LET id == last'.args[1]
           old == present.textLayers
           new == present'.textLayers
           keep == {i \in 1..Len(old) : old[i].id # id}
       IN /\ Len(new) = Cardinality(keep)
          /\ \A i \in keep : new[Cardinality({j \in keep : j <= i})] = old[i]
          /\ ~HasId(new, id)
          /\ present'.selectedLayerId =
               IF present.selectedLayerId = id THEN NoId
                                               ELSE present.selectedLayerId
          /\ SameFrame(present, present')]_vars

\* the first of two layers deleted while the second is selected
C11_Witness ==
  /\ last.op = "deleteTextLayer"
  /\ last.out = "commit"
  /\ last.args[1] = 1
  /\ Len(past[Len(past)].textLayers) = 2
  /\ Len(present.textLayers) = 1
  /\ present.textLayers[1].id = 2
  /\ present.selectedLayerId = 2

\* s with the elements at positions i and j exchanged
Exchanged(s, i, j) ==
  [k \in 1..Len(s) |-> IF k = i THEN s[j] ELSE IF k = j THEN s[i] ELSE s[k]]

\* moveLayerUp (dir = 1) or moveLayerDown (dir = -1) of the layer at
\* position m: the layer changes places with its neighbour in the list and
\* in the order the export paints; at the boundary nothing changes.
Reordered(m, dir) ==
  LET old == present.textLayers
      new == present'.textLayers
      k == Rank(old, m)
  IN IF m + dir \in 1..Len(old)
       THEN /\ last'.out = "commit"
            /\ new = Exchanged(old, m, m + dir)
            /\ ~HasUndefined(old) =>
                 /\ k + dir \in 1..Len(old)
                 /\ sortedTextLayers(new) =
                      Exchanged(sortedTextLayers(old), k, k + dir)
            /\ present'.selectedLayerId = present.selectedLayerId
            /\ SameFrame(present, present')
       ELSE /\ last'.out = "return"
            /\ past' = past /\ present' = present /\ future' = future

\* C12: moveLayerUp(id) exchanges the layer with its immediate neighbour
\* toward the front of the paint order and moveLayerDown(id) with its
\* immediate neighbour toward the back, so that the export paints the two
\* in the opposite order; for the front-most (resp. back-most) layer the
\* call leaves past, present and future unchanged.
C12_Reorder ==
  [][/\ (/\ Called("moveLayerUp")
          /\ last'.out # "throw"
          /\ HasId(present.textLayers, last'.args[1]))
         => Reordered(FirstMatch(present.textLayers, last'.args[1]), 1)
     /\ (/\ Called("moveLayerDown")
          /\ last'.out # "throw"
          /\ HasId(present.textLayers, last'.args[1]))
         => Reordered(FirstMatch(present.textLayers, last'.args[1]), -1)]_vars

\* C13: bringToFront(id) and sendToBack(id) are operations of the store;
\* after bringToFront(id) the z-order index of layer id is greater than
\* that of every other layer in present, after sendToBack(id) smaller.
C13_ZOrder ==
  [][\A op \in {"bringToFront", "sendToBack"} :
       (Called(op) /\ HasId(present.textLayers, last'.args[1])) =>
         LET id == last'.args[1]
             new == present'.textLayers
         IN /\ last'.out = "commit"
            /\ \A i, j \in 1..Len(new) :
                 (new[i].id = id /\ new[j].id # id) =>
                   IF op = "bringToFront" THEN ZKey(new[i]) > ZKey(new[j])
                                          ELSE ZKey(new[i]) < ZKey(new[j])]_vars

\* C14: duplicateLayer(id) for an existing layer appends a layer equal to
\* the original in every field except id, which differs from all existing
\* ids, and x and y, each 20 more; it selects the new layer and leaves the
\* existing layers as they were.
C14_Duplicate ==
  [][(/\ Called("duplicateLayer")
      /\ last'.out # "throw"
      /\ HasId(present.textLayers, last'.args[1])) =>
       LET old == present.textLayers
           new == present'.textLayers
           orig == old[FirstMatch(old, last'.args[1])]
           copy == new[Len(new)]
       IN /\ last'.out = "commit"
          /\ Len(new) = Len(old) + 1
          /\ SubSeq(new, 1, Len(old)) = old
          /\ DOMAIN copy = DOMAIN orig
          /\ \A f \in (DOMAIN orig) \ {"id", "x", "y"} : copy[f] = orig[f]
          /\ copy.x = orig.x + 20
          /\ copy.y = orig.y + 20
          /\ present'.selectedLayerId = copy.id
          /\ ~HasId(old, copy.id)]_vars

\* C15: toggleLayerLock(id) flips the locked flag of layer id; it sets
\* selectedLayerId to null when it turns the lock on for the layer that is
\* selected, and leaves selectedLayerId unchanged when it turns a lock off
\* or locks a layer other than the selected one.
C15_Lock ==
  [][(/\ Called("toggleLayerLock")
      /\ last'.out = "commit") =>
       LET id == last'.args[1]
           old == present.textLayers
           new == present'.textLayers
           wasLocked == Truthy(old[FirstMatch(old, id)], "locked")
       IN /\ Len(new) = Len(old)
          /\ \A i \in 1..Len(old) :
               IF old[i].id = id
                 THEN new[i] = Spread(old[i], [locked |-> ~Truthy(old[i], "locked")])
                 ELSE new[i] = old[i]
          /\ present'.selectedLayerId =
               IF ~wasLocked /\ present.selectedLayerId = id
                 THEN NoId
                 ELSE present.selectedLayerId]_vars

\* C16: while a layer has locked = true, updateTextLayer on it is rejected
\* or ignored: the call leaves every field of the locked layer as it was.
C16_LockedImmutable ==
  [][(Called("updateTextLayer") /\ last'.out # "throw") =>
       LET old == present.textLayers
           new == present'.textLayers
       IN /\ Len(new) = Len(old)
          /\ \A i \in 1..Len(old) :
               Truthy(old[i], "locked") => new[i] = old[i]]_vars

\* where on the canvas a fillText call made under no rotation puts its
\* anchor point
DeviceX(c) == Plus(c.transform.tx, Times(c.transform.sx, Plus(c.x, c.transform.ox)))
DeviceY(c) == Plus(c.transform.ty, Times(c.transform.sy, Plus(c.y, c.transform.oy)))

Upright(c) ==
  c.transform.rot = 0 /\ c.transform.sx = F(1) /\ c.transform.sy = F(1)

Exported == last.op = "handleExportPNG" /\ canvas.out = "ok"

\* C17: exportToPNG renders into a raster of exactly originalWidth x
\* originalHeight and draws the first line of a left-aligned, unrotated,
\* unscaled layer with its top-left corner at (x * originalWidth /
\* displayWidth, y * originalHeight / displayHeight) and the font size
\* fontSize * min(originalWidth / displayWidth, originalHeight /
\* displayHeight): at (125, 125) with size 60 for a 2000 x 1000 image shown
\* at 800 x 400 and a layer at (50, 50) with fontSize 24.
C17_ExportPlacement ==
  Exported =>
    LET im == present.imageData
        layers == present.textLayers
        widthFirst == im.width * im.displayHeight <= im.height * im.displayWidth
    IN /\ canvas.width = im.width
       /\ canvas.height = im.height
       /\ \A i \in 1..Len(layers) :
            LET l == layers[i] IN
            (/\ ~("visible" \in DOMAIN l /\ l.visible = FALSE)
             /\ l.align = "left"
             /\ OrElse(l, "rotation", 0) = 0
             /\ OrElse(l, "scaleX", 1) = 1
             /\ OrElse(l, "scaleY", 1) = 1) =>
              \E k \in 1..Len(canvas.calls) :
                LET c == canvas.calls[k] IN
                /\ c.op = "fillText" /\ c.layer = l.id /\ c.index = 0
                /\ c.align = "left" /\ c.baseline = "top"
                /\ Upright(c)
                /\ DeviceX(c) = Frac(l.x * im.width, im.displayWidth)
                /\ DeviceY(c) = Frac(l.y * im.height, im.displayHeight)
                /\ c.size = IF widthFirst
                              THEN Frac(l.fontSize * im.width, im.displayWidth)
                              ELSE Frac(l.fontSize * im.height, im.displayHeight)
                /\ (/\ im.width = 2000 /\ im.height = 1000
                    /\ im.displayWidth = 800 /\ im.displayHeight = 400
                    /\ l.x = 50 /\ l.y = 50 /\ l.fontSize = 24) =>
                     (DeviceX(c) = F(125) /\ DeviceY(c) = F(125) /\ c.size = F(60))

\* the sample scenario, exported
C17_Witness ==
  /\ Exported
  /\ present.imageData = Img1
  /\ Len(present.textLayers) = 2
  /\ present.textLayers[2].align = "left"
  /\ present.textLayers[2].visible = TRUE
  /\ \E k \in 1..Len(canvas.calls) :
       /\ canvas.calls[k].op = "fillText"
       /\ canvas.calls[k].layer = present.textLayers[2].id
       /\ canvas.calls[k].x = F(125)
       /\ canvas.calls[k].y = F(125)
       /\ canvas.calls[k].size = F(60)

\* C18: for every layer the preview shows with rotation 0 and scale 1 and
\* every line of its text, the x-coordinate at which CanvasWrapper.draw
\* puts the line, multiplied by originalWidth / displayWidth, is the
\* x-coordinate at which exportToPNG puts the same line, with the same
\* text-alignment anchor, for left, center and right alignment.
C18_PreviewParity ==
  Exported =>
    LET im == present.imageData IN
    \A j \in 1..Len(screen.calls) :
      LET p == screen.calls[j] IN
      (p.op = "fillText" /\ Upright(p)) =>
        \E k \in 1..Len(canvas.calls) :
          LET c == canvas.calls[k] IN
          /\ c.op = "fillText" /\ c.layer = p.layer /\ c.index = p.index
          /\ c.line = p.line
          /\ c.align = p.align
          /\ DeviceX(c) = Times(DeviceX(p), Frac(im.width, im.displayWidth))

\* the layers the export paints, in painting order
Painted == SelectSeq(canvas.calls, LAMBDA c : c.op = "fillText" /\ c.index = 0)

LayerAt(id) == present.textLayers[FirstMatch(present.textLayers, id)]

\* C19: exportToPNG draws the background image first and then exactly the
\* layers whose visible flag is not false, each once, in ascending z-order
\* index, layers of equal or absent index in list order.
C19_PaintOrder ==
  Exported =>
    LET layers == present.textLayers IN
    /\ canvas.calls[1].op = "drawImage"
    /\ \A k \in 2..Len(canvas.calls) : canvas.calls[k].op = "fillText"
    /\ {Painted[k].layer : k \in 1..Len(Painted)} =
         {layers[i].id : i \in {n \in 1..Len(layers) :
            ~("visible" \in DOMAIN layers[n] /\ layers[n].visible = FALSE)}}
    /\ \A a, b \in 1..Len(Painted) :
         a < b =>
           LET la == LayerAt(Painted[a].layer)
               lb == LayerAt(Painted[b].layer)
           IN /\ Painted[a].layer # Painted[b].layer
              /\ \/ ZKey(la) < ZKey(lb)
                 \/ /\ ZKey(la) = ZKey(lb)
                    /\ FirstMatch(layers, la.id) < FirstMatch(layers, lb.id)

\* two layers painted in the order opposite to their list order
C19_Witness ==
  /\ Exported
  /\ Len(present.textLayers) = 2
  /\ ZKey(present.textLayers[1]) > ZKey(present.textLayers[2])
  /\ Len(Painted) = 2
  /\ Painted[1].layer = present.textLayers[2].id
  /\ Painted[2].layer = present.textLayers[1].id

\* C20: importing the document exportProjectData(image, layers) wrote
\* returns that image and that layer list, same order and every field
\* equal, also for an empty layer list and a null image.
C20_ProjectRoundTrip ==
  [][Called("handleImportProject") =>
       /\ file = exportProjectData(present.imageData, present.textLayers,
                                    file.timestamp)
       /\ imported'.out = "ok"
       /\ imported'.imageData = present.imageData
       /\ imported'.textLayers = present.textLayers]_vars

\* the project of the empty editor, exported and imported
C20_Witness ==
  /\ last.op = "handleImportProject"
  /\ last.args[1].textLayers = <<>>
  /\ last.args[1].imageData = Null
  /\ imported.out = "ok"
  /\ imported.imageData = Null
  /\ imported.textLayers = <<>>

(***************************************************************************)
(* Project import (SpecImport).                                            *)
(***************************************************************************)
Imported == last.op = "handleImportProject"

\* the document has no version property or no textLayers property, or is
\* no JSON value at all
Lacks(doc) ==
  \/ doc = Unparseable
  \/ "version" \notin DOMAIN doc
  \/ "textLayers" \notin DOMAIN doc

\* what importProjectData returns for a document it accepts
Embedded(doc) ==
  /\ imported.out = "ok"
  /\ imported.imageData =
       (IF "imageData" \in DOMAIN doc THEN doc.imageData ELSE Null)
  /\ imported.textLayers = doc.textLayers

\* C21 as stated: importProjectData throws for every document that lacks
\* version or textLayers and for unparseable input, and for every other
\* document returns the embedded image (null when absent) and layer list.
C21_ImportContract ==
  Imported =>
    IF Lacks(last.args[1]) THEN imported.out = "throw"
                           ELSE Embedded(last.args[1])

\* C21, amended: importProjectData throws for every document whose version
\* or textLayers is missing or whose version is empty (falsy), and for
\* unparseable input; for every other document it returns the embedded
\* image (null when absent) and the embedded layer list.
C21_ImportFalsy ==
  Imported =>
    IF Lacks(last.args[1]) \/ last.args[1].version = ""
      THEN imported.out = "throw"
      ELSE Embedded(last.args[1])

\* a document that has a version and a layer list was rejected, its
\* version being empty
C21_Witness ==
  /\ Imported
  /\ ~Lacks(last.args[1])
  /\ last.args[1].version = ""
  /\ imported.out = "throw"

\* C22: when importProjectData rejects the file (unparseable, version or
\* layers missing), handleImportProject leaves past, present and future
\* exactly as they were: reset() and the re-population come after it.
C22_FailedImportKeepsStore ==
  [][Called("handleImportProject") /\ imported'.out = "throw" =>
       /\ past' = past
       /\ present' = present
       /\ future' = future]_vars

\* a rejected import on a store that has an image, a layer and a history
C22_Witness ==
  /\ Imported
  /\ imported.out = "throw"
  /\ Lacks(last.args[1])
  /\ present.imageData # Null
  /\ Len(present.textLayers) > 0
  /\ Len(past) > 1

(***************************************************************************)
(* Export failures (SpecExport).                                           *)
(***************************************************************************)
\* C23: every failure of a PNG export (no 2D context, the image not
\* loading, no blob) ends in an alert with a message.
C23_ExportFailureShown ==
  /\ last.op = "handleExportPNG"
  /\ present.imageData # Null
  /\ last.args[1] \in {"noContext", "imageError", "noBlob"}
  => canvas.alert # ""

(***************************************************************************)
(* Autosave (SpecAutosave).                                                *)
(***************************************************************************)
\* the i-th saveState call was not followed by another within the delay
Quiet(i) ==
  IF i < Len(autosave.calls)
    THEN autosave.calls[i + 1].at >= autosave.calls[i].at + SAVE_INTERVAL
    ELSE autosave.time >= autosave.calls[i].at + SAVE_INTERVAL

\* the writes the quiet calls make, in their order: each writes its own
\* arguments when its delay ends
QuietWrites ==
  LET quiet == SelectSeq([i \in 1..Len(autosave.calls) |-> i],
                         LAMBDA i : Quiet(i))
  IN [k \in 1..Len(quiet) |->
        [data |-> autosave.calls[quiet[k]].data,
         at |-> autosave.calls[quiet[k]].at + SAVE_INTERVAL]]

\* the timeout of the latest call is due and has not run yet
LastDue ==
  /\ autosave.calls # <<>>
  /\ \E t \in autosave.timers :
       /\ t.id = Len(autosave.calls)
       /\ t.data = autosave.calls[t.id].data
       /\ t.due = autosave.time

WritesAreQuietCalls ==
  \/ autosave.writes = QuietWrites
  \/ /\ LastDue
     /\ QuietWrites # <<>>
     /\ autosave.writes = SubSeq(QuietWrites, 1, Len(QuietWrites) - 1)

\* no timeout is pending and the latest write is that of the arguments of
\* the latest call
Settled ==
  /\ autosave.timers = {}
  /\ autosave.writes = QuietWrites
  /\ autosave.writes # <<>>
  /\ autosave.writes[Len(autosave.writes)].data =
       autosave.calls[Len(autosave.calls)].data

C25_SnapshotsImmutable ==
  [][last'.op \in {"setImageData", "addTextLayer"} /\ vars' # vars =>
       /\ Len(past') >= Len(past)
       /\ SubSeq(past', 1, Len(past)) = past
       /\ past'[Len(past')] = present]_vars

(***************************************************************************)
(* Size of the history (Spec).                                             *)
(***************************************************************************)
\* C26: in every reachable state past and future hold at most 25 states
\* together, so getHistoryInfo() reports 1 <= currentStep <= totalSteps
\* <= 26, and canUndo() (canRedo()) is true exactly when undo() (redo())
\* would change the store.
C26_HistoryBounds ==
  /\ Len(past) + Len(future) <= MAX_HISTORY_SIZE
  /\ 1 <= getHistoryInfo(Store).currentStep
  /\ getHistoryInfo(Store).currentStep <= getHistoryInfo(Store).totalSteps
  /\ getHistoryInfo(Store).totalSteps <= MAX_HISTORY_SIZE + 1
  /\ canUndo(Store) <=> undo(Store).st # Store
  /\ canRedo(Store) <=> redo(Store).st # Store

\* A full history that was walked back: 25 states in past and future
\* together, some of them in future, after an undo.
C26_Witness ==
  /\ last.op = "undo" /\ last.out = "set"
  /\ Len(past) + Len(future) = MAX_HISTORY_SIZE
  /\ Len(future) >= 2
  /\ getHistoryInfo(Store).totalSteps = MAX_HISTORY_SIZE + 1
  /\ canUndo(Store) /\ canRedo(Store)

(***************************************************************************)
(* The record found at page load (SpecAutosave).                           *)
(***************************************************************************)
\* C27: a record found in the slot at page load is still there when the
\* user, before doing anything else, clicks Restore, however long after
\* the load, and Restore installs the image, the layers and the custom
\* fonts of that record.
C27_RestoreInstallsFound ==
  [][autosave.found # Null /\ last = NoCall
       /\ Called("handleRestoreAutosave") =>
         /\ autosave.slot = autosave.found
         /\ present'.imageData = autosave.found.imageData
         /\ present'.textLayers = autosave.found.textLayers
         /\ present'.customFonts = autosave.found.customFonts]_vars

(***************************************************************************)
(* Reordering (Spec).                                                      *)
(***************************************************************************)
\* how often x is an entry of the array a
Count(a, x) == Cardinality({i \in 1..Len(a) : a[i] = x})

\* b holds the entries of a, each as often as a does
Permuted(a, b) ==
  /\ Len(b) = Len(a)
  /\ \A i \in 1..Len(a) : Count(b, a[i]) = Count(a, a[i])

\* C28: moveLayerUp(id) and moveLayerDown(id) only permute the layer list,
\* for every id, also one that matches no layer: the list has the same
\* length and the same entries afterwards.
C28_MovesPermute ==
  [][(Called("moveLayerUp") \/ Called("moveLayerDown")) =>
       Permuted(present.textLayers, present'.textLayers)]_vars

(***************************************************************************)
(* The selection (Spec).                                                   *)
(***************************************************************************)
\* selectedLayerId of the state p is null or the id of a layer of p
SelectionValid(p) ==
  \/ p.selectedLayerId = NoId
  \/ \E i \in 1..Len(p.textLayers) :
       /\ p.textLayers[i] # Undefined
       /\ p.textLayers[i].id = p.selectedLayerId

\* present and every state that undo or redo can bring back
SelectionsValid ==
  /\ SelectionValid(present)
  /\ \A k \in 1..Len(past) : SelectionValid(past[k])
  /\ \A k \in 1..Len(future) : SelectionValid(future[k])

\* the step is no call of setSelectedLayerId with an id that is neither
\* null nor the id of a layer of present
SelectsAsTheUI ==
  Called("setSelectedLayerId") =>
    \/ last'.args[1] = NoId
    \/ \E i \in 1..Len(present.textLayers) :
         /\ present.textLayers[i] # Undefined
         /\ present.textLayers[i].id = last'.args[1]

\* C29: as long as setSelectedLayerId is called with null or the id of a
\* layer of present only, selectedLayerId is null or the id of a layer of
\* present.textLayers in every state, also after deleteTextLayer, undo,
\* redo and reset: no step of that kind leads from a store whose
\* selections are all valid, as they are in the store as constructed, to
\* one with an invalid selection.
C29_SelectionValid ==
  [][SelectionsValid /\ SelectsAsTheUI => SelectionsValid']_vars

(***************************************************************************)
(* Calls for an id that matches no layer (Spec).                           *)
(***************************************************************************)
\* no layer of present has the id
Missing(id) ==
  \A i \in 1..Len(present.textLayers) :
    present.textLayers[i] = Undefined \/ present.textLayers[i].id # id

\* C30: updateTextLayer, deleteTextLayer and toggleLayerVisibility called
\* with an id that matches no layer leave past and future unchanged.
C30_MissingIdKeepsHistory ==
  [][/\ \/ Called("updateTextLayer")
        \/ Called("deleteTextLayer")
        \/ Called("toggleLayerVisibility")
     /\ Missing(last'.args[1])
     => past' = past /\ future' = future]_vars

(***************************************************************************)
(* The busy flag of the PNG export (SpecBusy).                             *)
(***************************************************************************)
\* C31: isExporting is true exactly while a PNG export is in flight, from
\* the click until the blob was produced and the download triggered, or
\* the export failed.
C31_BusyWhileInFlight == page.isExporting <=> page.exports # <<>>

(***************************************************************************)
(* The image an upload commits (SpecUpload).                               *)
(***************************************************************************)
\* the larger of two numbers
Larger(a, b) == IF a > b THEN a ELSE b

\* C32: the descriptor an upload commits has displayWidth and
\* displayHeight that are positive integers of at most 800, equal to
\* width and height when both are at most 800 and otherwise in the ratio
\* of width to height up to the rounding of one of them.
C32_DisplaySize ==
  present.imageData # Null =>
    LET im == present.imageData IN
    /\ im.displayWidth \in 1..maxDisplaySize
    /\ im.displayHeight \in 1..maxDisplaySize
    /\ (im.width <= maxDisplaySize /\ im.height <= maxDisplaySize) =>
         im.displayWidth = im.width /\ im.displayHeight = im.height
    /\ 2 * Abs(im.displayWidth * im.height - im.displayHeight * im.width)
         <= Larger(im.width, im.height)

(***************************************************************************)
(* The cached width (SpecEdit).                                            *)
(***************************************************************************)
\* C33: a cached width of a layer is the width draw() measures for the
\* text the layer has now: after updateTextLayer changed the text the
\* width is measured anew before it is used again (every state here is one
\* the preview has drawn, and hit-testing, the selection box and the
\* export read the width from it).
C33_CachedWidthFresh ==
  \A i \in 1..Len(present.textLayers) :
    TruthyNum(present.textLayers[i], "width") =>
      present.textLayers[i].width = measureText(present.textLayers[i].text)

(***************************************************************************)
(* Uploads that overlap (SpecUpload).                                      *)
(***************************************************************************)
\* the number of the call of handleImageUpload that made the object URL
Started(src) == CHOOSE n \in 1..page.uploads : createObjectURL(n) = src

\* C34: once every image that was uploaded has been decoded,
\* present.imageData is the image of the upload that was started last,
\* whatever order the images were decoded in: every image committed
\* before it belongs to an earlier upload.
C34_LastUploadWins ==
  (page.decodes = <<>> /\ present.imageData # Null) =>
    \A k \in 1..Len(past) :
      past[k].imageData # Null =>
        Started(past[k].imageData.src) < Started(present.imageData.src)

(***************************************************************************)
(* Custom fonts (SpecFonts).                                               *)
(***************************************************************************)
\* C35: every custom font listed in present.customFonts is registered in
\* the font manager, and its object URL has not been revoked.
C35_FontsRegistered ==
  \A i \in 1..Len(present.customFonts) :
    /\ present.customFonts[i] \in fontManager.customFonts
    /\ present.customFonts[i].url \notin fontManager.revoked

(***************************************************************************)
(* Stale records (SpecAutosave).                                           *)
(***************************************************************************)
\* the record in the slot was written more than 24 hours ago
Stale == autosave.slot # Null /\ autosave.time - autosave.slot.timestamp > maxAge

\* C36: loadState() returns null and removes the record from the slot when
\* the record is more than 24 hours old at the time of loading, and
\* returns the record as it is, leaving the slot alone, otherwise; a
\* Restore that finds a stale record changes nothing in the store.
C36_StaleDiscarded ==
  /\ [](IF Stale
          THEN /\ loadState(autosave).saved = Null
               /\ loadState(autosave).as.slot = Null
          ELSE /\ loadState(autosave).saved = autosave.slot
               /\ loadState(autosave).as = autosave)
  /\ [][/\ last.op # "handleRestoreAutosave"
         /\ Called("handleRestoreAutosave")
         /\ Stale
         => /\ UNCHANGED <<past, present, future>>
            /\ autosave'.slot = Null]_vars

\* Restore was clicked one second or more after a page load that found a
\* record exactly 24 hours old: nothing was restored, the slot is empty.
C36_Witness ==
  /\ last.op = "handleRestoreAutosave"
  /\ autosave.found = EdgeRecord
  /\ autosave.time >= 1
  /\ autosave.writes = <<>>
  /\ autosave.slot = Null
  /\ present = initialState /\ past = <<>>

(***************************************************************************)
(* Visibility (Spec).                                                      *)
(***************************************************************************)
\* the layer counts as visible: its visible flag is unset or true
Visible(layer) == ~("visible" \in DOMAIN layer /\ layer.visible = FALSE)

\* the layer with its visible flag set to v
WithVisible(layer, v) == Spread(layer, [visible |-> v])

\* the step is a call of toggleLayerVisibility that committed
Toggled == Called("toggleLayerVisibility") /\ last'.out = "commit"

Pickable(layer, point) ==
  /\ "visible" \in DOMAIN layer /\ layer.visible
  /\ ~("locked" \in DOMAIN layer /\ layer.locked)
  /\ "width" \in DOMAIN layer /\ "height" \in DOMAIN layer
  /\ layer.x <= point.x /\ point.x <= layer.x + layer.width
  /\ layer.y <= point.y /\ point.y <= layer.y + layer.height

\* C38: a mouse-down on the preview canvas selects the last layer of the
\* list that is visible, not locked and whose box holds the point, and
\* sets the selection to null when there is none; the layer it selects is
\* never hidden and never locked.
C38_MouseDownSelects ==
  [][last'.op = "handleMouseDown" /\ vars' # vars =>
       LET point == last'.args[1]
           layers == present.textLayers
           sel == present'.selectedLayerId
       IN /\ present'.textLayers = layers
          /\ (\A i \in 1..Len(layers) : ~Pickable(layers[i], point)) => sel = NoId
          /\ \A i \in 1..Len(layers) :
               (/\ Pickable(layers[i], point)
                /\ \A j \in (i + 1)..Len(layers) : ~Pickable(layers[j], point))
               => sel = layers[i].id
          /\ \A i \in 1..Len(layers) :
               layers[i].id = sel =>
                 /\ layers[i].visible
                 /\ ~layers[i].locked]_vars

\* A mouse-down on a point that the boxes of two layers hold, the upper
\* of them locked or hidden, has selected the lower one.
C38_Witness ==
  /\ last.op = "handleMouseDown"
  /\ Len(present.textLayers) = 2
  /\ Pickable(present.textLayers[1], last.args[1])
  /\ ~Pickable(present.textLayers[2], last.args[1])
  /\ present.textLayers[2].x <= last.args[1].x
  /\ last.args[1].x <= present.textLayers[2].x + present.textLayers[2].width
  /\ present.selectedLayerId = present.textLayers[1].id

\* A mouse-down on a point that the boxes of two pickable layers hold has
\* selected the later one.
C38_WitnessOverlap ==
  /\ last.op = "handleMouseDown"
  /\ Len(present.textLayers) = 2
  /\ Pickable(present.textLayers[1], last.args[1])
  /\ Pickable(present.textLayers[2], last.args[1])
  /\ present.selectedLayerId = present.textLayers[2].id

(***************************************************************************)
(* Keyboard shortcuts for the layer order (SpecEdit).                      *)
(***************************************************************************)
\* the step is a press of Ctrl/Cmd+ArrowUp or Ctrl/Cmd+ArrowDown
CtrlArrow ==
  /\ last'.op = "handleKeyDown"
  /\ vars' # vars
  /\ last'.args[1].mod
  /\ last'.args[1].key \in {"ArrowUp", "ArrowDown"}

\* C39 as the shortcut help states it: Ctrl/Cmd+ArrowUp and
\* Ctrl/Cmd+ArrowDown with a layer selected leave the position of every
\* layer unchanged.
C39_CtrlArrowKeepsPosition ==
  [][CtrlArrow =>
       \A i \in 1..Len(present.textLayers) :
         \E j \in 1..Len(present'.textLayers) :
           /\ present'.textLayers[j].id = present.textLayers[i].id
           /\ present'.textLayers[j].x = present.textLayers[i].x
           /\ present'.textLayers[j].y = present.textLayers[i].y]_vars

====
